---- MODULE Spec2Model ----
(***************************************************************************)
(* A model of the mochi execution engine: the scheduler of runtime.rs      *)
(* (Runtime::execute, Vm::execute_single_step, Vm::push_frame, Upvalue)    *)
(* and the interpreter loop of vm/main_loop.rs (Vm::execute_frame).        *)
(*                                                                         *)
(* Rust indices are 0-based; a Vec is a TLA+ sequence whose element i is   *)
(* at position i+1 (see Get / Set).                                        *)
(***************************************************************************)
EXTENDS Integers, Sequences, FiniteSets, TLC

(* ------------------------------ bounds -------------------------------- *)
\* instructions the open prototypes may execute in one run before only
\* returns and tail calls are left to them
MaxSteps == 2
\* frames on one thread while an open prototype may still call
MaxFrames == 2
\* upvalue cells the heap may hold while an open prototype may still allocate
MaxCells == 4
\* integer literals a LoadI of an open prototype may load: 1..MaxInt
MaxInt == 2
\* the width of Value::Integer in bits (i64 in the source): integers are
\* -2^(IntBits-1) .. 2^(IntBits-1)-1 and wrapping arithmetic is modulo 2^IntBits
IntBits == 4
\* the __call metamethods push_frame is followed through for one callee
MaxCallChain == 3
\* the lexer's sources: the longest run of newlines, blanks and letters put
\* into one of the contexts that take newlines
MaxLineBody == 3
\* the longest body of a long string or long comment
MaxLongBody == 5
\* the most digits of a decimal escape, and the most digits that follow the
\* leading digit of a \u{...} escape
MaxDecimalRun == 4
MaxHexRun == 8

(* ------------------------------ values -------------------------------- *)
Nil == [ty |-> "Nil", v |-> 0, name |-> "", up |-> <<>>]
BoolV(b) == [ty |-> "Boolean", v |-> IF b THEN 1 ELSE 0, name |-> "", up |-> <<>>]
IntV(n) == [ty |-> "Integer", v |-> n, name |-> "", up |-> <<>>]
ErrV(kind) == [ty |-> "String", v |-> 0, name |-> kind, up |-> <<>>]
\* a string constant of a prototype
StrV(s) == [ty |-> "String", v |-> 0, name |-> s, up |-> <<>>]
TableV(nm) == [ty |-> "Table", v |-> 0, name |-> nm, up |-> <<>>]
ThreadV(t) == [ty |-> "Thread", v |-> t, name |-> "", up |-> <<>>]
NativeV(nm) == [ty |-> "NativeFunction", v |-> 0, name |-> nm, up |-> <<>>]
\* LuaClosure { proto, upvalues }: name is the prototype, up the cells
LuaClosureV(proto, ups) == [ty |-> "LuaClosure", v |-> 0, name |-> proto, up |-> ups]

\* the native functions load_stdlib registers in the globals table
NativeNames == {"pcall", "error", "create", "resume"}
\* the native functions the host has stored in metatables: they return their
\* first argument, their second argument, and 42
MetamethodNames == {"first", "second", "answer"}
\* the tables the host has stored in the globals table, by global name:
\*   plain               no metatable
\*   adder, adder2       a metatable with __add (first / second)
\*   noadd               a metatable without __add
\*   callable            a metatable whose __call is a native function
\*   callable2           a metatable whose __call is the table callable
\*   callself            a metatable whose __call is the table callself itself
\*   callable3           a metatable whose __call is a Lua closure
\*   closable            a metatable with __close
GlobalTables ==
    {"plain", "adder", "adder2", "noadd", "callable", "callable2", "callable3",
     "callself", "closable"}
\* the tables of the heap: the globals' and the one NewTable makes
TableNames == GlobalTables \cup {"new"}
\* field names a GetTabUp may ask for: the natives, the tables and one
\* undefined global
FieldNames == NativeNames \cup GlobalTables \cup {"undefined"}
\* Table::get_field on the globals table
get_field(nm) ==
    IF nm \in NativeNames THEN NativeV(nm)
    ELSE IF nm \in GlobalTables THEN TableV(nm)
    ELSE Nil

\* Table::metatable(): the name of the table's metatable, "" for None
TableMetatable(nm) ==
    CASE nm = "adder" -> "mt_first"
      [] nm = "adder2" -> "mt_second"
      [] nm = "noadd" -> "mt_other"
      [] nm = "callable" -> "mt_call"
      [] nm = "callable2" -> "mt_call2"
      [] nm = "callable3" -> "mt_call3"
      [] nm = "callself" -> "mt_callself"
      [] nm = "closable" -> "mt_close"
      [] OTHER -> ""

\* Table::get_field on a metatable: the metamethod stored under an event name
MetatableField(mt, event) ==
    CASE mt = "mt_first" /\ event = "__add" -> NativeV("first")
      [] mt = "mt_second" /\ event = "__add" -> NativeV("second")
      [] mt = "mt_other" /\ event = "__sub" -> NativeV("answer")
      [] mt = "mt_call" /\ event = "__call" -> NativeV("answer")
      [] mt = "mt_call2" /\ event = "__call" -> TableV("callable")
      [] mt = "mt_call3" /\ event = "__call" -> LuaClosureV("TLeaf", <<>>)
      [] mt = "mt_callself" /\ event = "__call" -> TableV("callself")
      [] mt = "mt_string" /\ event = "__index" -> TableV("string")
      [] mt = "mt_close" /\ event = "__close" -> NativeV("answer")
      [] OTHER -> Nil

\* Value::metatable(): the metatable of a table, None (Nil here) otherwise
metatable(value) ==
    IF value.ty = "Table" /\ TableMetatable(value.name) # ""
    THEN TableV(TableMetatable(value.name))
    ELSE Nil

\* Vm::metatables: the per-type metatables, after the host has installed the
\* string library's metatable with set_metatable_of_type(Type::String, ..)
metatables(ty) == IF ty = "String" THEN TableV("mt_string") ELSE Nil

\* Vm::metatable_of_object
metatable_of_object(object) ==
    IF object.ty = "Table" THEN metatable(object) ELSE metatables(object.ty)

\* Vm::metamethod_of_object(metamethod, object): None is Nil
metamethod_of_object(event, object) ==
    LET mt == metatable_of_object(object)
    IN IF mt = Nil THEN Nil ELSE MetatableField(mt.name, event)

ThreadIds == {1, 2}
main_thread == CHOOSE t \in ThreadIds : \A u \in ThreadIds : t <= u

\* Integer::wrapping_add and friends: the result modulo 2^IntBits
MinInteger == -(2 ^ (IntBits - 1))
MaxInteger == 2 ^ (IntBits - 1) - 1
Wrap(n) == ((n - MinInteger) % (2 ^ IntBits)) + MinInteger

(* ------------------------------ Vec ----------------------------------- *)
Get(s, i) == s[i + 1]
Set(s, i, x) == [s EXCEPT ![i + 1] = x]
\* Vec::resize, called only when the vector is shorter
Resize(s, n) == IF Len(s) < n THEN s \o [k \in 1..(n - Len(s)) |-> Nil] ELSE s
\* Vec::truncate
Truncate(s, n) == IF n < Len(s) THEN SubSeq(s, 1, n) ELSE s
\* slice::copy_within(lo..hi, dest); the caller checks CopyOk first
CopyOk(s, lo, hi, dest) == lo <= hi /\ hi <= Len(s) /\ dest + (hi - lo) <= Len(s)
CopyWithin(s, lo, hi, dest) ==
    [k \in 1..Len(s) |->
        IF dest < k /\ k <= dest + (hi - lo) THEN s[k - dest + lo] ELSE s[k]]
\* Vec::insert
Insert(s, i, x) == SubSeq(s, 1, i) \o <<x>> \o SubSeq(s, i + 1, Len(s))
Last(s) == s[Len(s)]
Front(s) == SubSeq(s, 1, Len(s) - 1)

(* ------------------------------ state --------------------------------- *)
VARIABLES
    thread_stack,   \* Vm::thread_stack: the resumed threads, the running one last
    status,         \* LuaThread::status, per thread
    stack,          \* LuaThread::stack, per thread
    frames,         \* LuaThread::frames, per thread
    open_upvalues,  \* LuaThread::open_upvalues, per thread: stack index -> cell
    upvalues,       \* the heap's upvalue cells (GcCell<Upvalue>), by cell id
    state,          \* the ExecutionState of the running execute_frame call
    tables,         \* the heap's tables, by name: the array entries written so far
    steps,          \* instructions of open prototypes executed so far (the model's budget)
    outcome,        \* what Runtime::execute has returned to the host, if anything
    gc,             \* the collector as the scheduler sees it: pending is what
                    \* gc.should_perform_gc() returns, stepped that Runtime::execute has
                    \* just run heap.step() for a StepGc action
    last,           \* history: the step taken last (what ran, and how an error was routed)
    before,         \* history: the VM as that step found it; for a step that ended in
                    \* an error, the VM as execute_next_frame left it on returning Err
    source,         \* the bytes the lexer's reader yields
    inner,          \* Lexer::inner, the LexerInner: bytes taken from the reader (pos),
                    \* the byte lookahead (peeked) and lineno
    peeked,         \* Lexer::peeked, the token lookahead
    handed,         \* history: the last call on the Lexer and what it returned
    math            \* a call of a function of the math library: its arguments and,
                    \* once it has run, what it returned

\* the lexer's variables; the VM's steps leave them alone and the lexer's
\* calls leave the VM alone
lexvars == <<source, inner, peeked, handed>>
vmvars ==
    <<thread_stack, status, stack, frames, open_upvalues, upvalues, state, tables, steps,
      outcome, gc, last, before>>
vars == <<vmvars, lexvars, math>>

(* ------------------------------ frames -------------------------------- *)
NoArgs == [tag |-> "None", kind |-> ""]
OkArgs == [tag |-> "Ok", kind |-> ""]
ErrArgs(kind) == [tag |-> "Err", kind |-> kind]

\* LuaFrame::new(bottom)
LuaFrame(bottom) ==
    [kind |-> "Lua", bottom |-> bottom, base |-> bottom + 1, pc |-> 0,
     num_extra_args |-> 0, callee_bottom |-> 0, args |-> NoArgs]
\* Frame::Native { bottom }
NativeFrame(bottom) ==
    [kind |-> "Native", bottom |-> bottom, base |-> bottom + 1, pc |-> 0,
     num_extra_args |-> 0, callee_bottom |-> 0, args |-> NoArgs]
\* Frame::ProtectedCallContinuation { inner, callee_bottom }
ProtectedCallContinuation(bottom, callee_bottom) ==
    [kind |-> "ProtectedCallContinuation", bottom |-> bottom, base |-> bottom + 1,
     pc |-> 0, num_extra_args |-> 0, callee_bottom |-> callee_bottom, args |-> NoArgs]
\* Frame::ResumeContinuation(frame)
ResumeContinuation(bottom) ==
    [kind |-> "ResumeContinuation", bottom |-> bottom, base |-> bottom + 1,
     pc |-> 0, num_extra_args |-> 0, callee_bottom |-> 0, args |-> NoArgs]

(* ------------------------------ upvalues ------------------------------ *)
\* Upvalue::Open { thread, index }
OpenCell(t, index) == [open |-> TRUE, thread |-> t, index |-> index, value |-> Nil]
\* Upvalue::Closed(value)
ClosedCell(value) == [open |-> FALSE, thread |-> main_thread, index |-> 0, value |-> value]

\* Vm::load: the loaded closure's single upvalue is a closed cell holding the
\* globals table; it is the heap's first cell
LoadedClosure(proto) == LuaClosureV(proto, <<1>>)

\* Vm::current_thread
current_thread ==
    IF thread_stack # <<>> THEN Last(thread_stack) ELSE main_thread


(* ---------------------------- prototypes ------------------------------ *)
\* An instruction: the opcode and the operands the opcodes of the model read.
\* key stands for the string constant a GetTabUp names, proto for protos[Bx].
Insn(op, a, b, k, key, proto) ==
    [op |-> op, a |-> a, b |-> b, c |-> 0, k |-> k, key |-> key, proto |-> proto]
MoveI(a, b) == Insn("Move", a, b, FALSE, "", "")
LoadII(a, n) == Insn("LoadI", a, n, FALSE, "", "")
GetUpvalI(a, b) == Insn("GetUpval", a, b, FALSE, "", "")
SetUpvalI(a, b) == Insn("SetUpval", a, b, FALSE, "", "")
GetTabUpI(a, b, key) == Insn("GetTabUp", a, b, FALSE, key, "")
CloseI(a) == Insn("Close", a, 0, FALSE, "", "")
ClosureI(a, proto) == Insn("Closure", a, 0, FALSE, "", proto)
CallI(a, b) == Insn("Call", a, b, FALSE, "", "")
TailCallI(a, b, k) == Insn("TailCall", a, b, k, "", "")
ReturnI(a, b, k) == Insn("Return", a, b, k, "", "")
\* an instruction with a C operand
InsnC(op, a, b, c, k, key) == [Insn(op, a, b, k, key, "") EXCEPT !.c = c]
\* LoadK A Bx: the constant is the integer n, or the string key when key # ""
LoadKI(a, n, key) == Insn("LoadK", a, n, FALSE, key, "")
AddI(a, b, c) == InsnC("Add", a, b, c, FALSE, "")
\* AddI A B sC: the immediate is c
AddII(a, b, c) == InsnC("AddI", a, b, c, FALSE, "")
\* AddK A B C: the constant K[C] is the integer c
AddKI(a, b, c) == InsnC("AddK", a, b, c, FALSE, "")
\* MmBin A B C: key is the event name tag_method_names[C]
MmBinI(a, b, key) == InsnC("MmBin", a, b, 0, FALSE, key)
MmBinII(a, b, key) == InsnC("MmBinI", a, b, 0, FALSE, key)
MmBinKI(a, b, key) == InsnC("MmBinK", a, b, 0, FALSE, key)
GetTableI(a, b, c) == InsnC("GetTable", a, b, c, FALSE, "")
GetII(a, b, c) == InsnC("GetI", a, b, c, FALSE, "")
GetFieldI(a, b, key) == InsnC("GetField", a, b, 0, FALSE, key)
\* Self_ A B C with k set: key is the string constant K[C]
SelfI(a, b, key) == InsnC("Self_", a, b, 0, TRUE, key)
NewTableI(a) == Insn("NewTable", a, 0, FALSE, "", "")
UnmI(a, b) == Insn("Unm", a, b, FALSE, "", "")
ExtraArgI == Insn("ExtraArg", 0, 0, FALSE, "", "")
\* ExtraArg Ax: a is Ax
ExtraArgAxI(ax) == Insn("ExtraArg", ax, 0, FALSE, "", "")
SetListI(a, b, c, k) == InsnC("SetList", a, b, c, k, "")
\* ForPrep A Bx / ForLoop A Bx: b is Bx
ForPrepI(a, bx) == Insn("ForPrep", a, bx, FALSE, "", "")
ForLoopI(a, bx) == Insn("ForLoop", a, bx, FALSE, "", "")
TForCallI(a) == Insn("TForCall", a, 0, FALSE, "", "")
TForLoopI(a, bx) == Insn("TForLoop", a, bx, FALSE, "", "")
\* VarArgPrep A: a is the number of fixed parameters
VarArgPrepI(a) == Insn("VarArgPrep", a, 0, FALSE, "", "")
VarArgI(a, c) == InsnC("VarArg", a, 0, c, FALSE, "")
Return0I == Insn("Return0", 0, 0, FALSE, "", "")
TbcI(a) == Insn("Tbc", a, 0, FALSE, "", "")
Return1I(a) == Insn("Return1", a, 0, FALSE, "", "")

\* UpvalueDescription::Register(i) / UpvalueDescription::Upvalue(i)
RegisterDesc(i) == [from |-> "Register", index |-> i]
UpvalueDesc(i) == [from |-> "Upvalue", index |-> i]

\* the main chunks that reach the metamethod, indexing and loop instructions
MainProtos ==
    {"MainArith", "MainArithI", "MainArithK", "MainIndex", "MainCall", "MainFor",
     "MainTFor7", "MainTFor8", "MainGc",
     "MainVarArg0", "MainVarArg1", "MainVarArg2", "MainVarArg3", "MainTbc",
     "MainSetList", "MainSetListX", "MainUnm"}

\* the vararg functions, by their number of fixed parameters
VarArgProtos == {"VA0", "VA1", "VA2"}
NumParams(p) == CASE p = "VA0" -> 0 [] p = "VA1" -> 1 [] p = "VA2" -> 2 [] OTHER -> 0
\* the number of arguments a MainVarArg chunk calls the vararg function with
NumArgs(p) ==
    CASE p = "MainVarArg0" -> 0 [] p = "MainVarArg1" -> 1 [] p = "MainVarArg2" -> 2
      [] p = "MainVarArg3" -> 3 [] OTHER -> 0

\* the integer constants a numeric for loop is given
ForInts == {MinInteger, -2, -1, 0, 1, 2, MaxInteger}

\* Prototypes whose code is left open: at each pc any instruction of the
\* alphabet may stand. They differ in what the closure captures.
OpenProtos == {"WM", "W0", "WR0", "WR1", "WU0"}
\* Prototypes with written-out code (a set at a pc: any one of these stands
\* there): the programs that reach the scheduler's protected-call, coroutine
\* and error paths and the tail-call protocol.
ScriptedProtos ==
    {"Main", "Main2", "Main3", "Thrower", "Nester", "Indexer", "Leaf", "Cap2",
     "Tail1", "Tail2", "TLeaf", "IterState", "IterControl"} \cup MainProtos
    \cup VarArgProtos

\* proto.upvalues
ProtoUpvalues(p) ==
    CASE p \in {"WM", "Main", "Main2", "Main3"} \cup MainProtos -> <<UpvalueDesc(0)>>
      [] p \in {"Thrower", "Nester", "WU0", "Tail1", "Tail2"} -> <<UpvalueDesc(0)>>
      [] p \in {"Indexer", "Leaf", "WR0"} -> <<RegisterDesc(0)>>
      [] p = "WR1" -> <<RegisterDesc(1)>>
      [] p = "Cap2" -> <<RegisterDesc(0), RegisterDesc(2)>>
      [] OTHER -> <<>>

\* proto.max_stack_size
ProtoMaxStackSize(p) ==
    CASE p \in {"Main", "Main2"} -> 3
      [] p \in {"MainArith", "MainArithI", "MainArithK", "MainIndex", "MainCall"} -> 3
      [] p = "MainFor" -> 5
      [] p \in {"MainGc", "MainTbc"} -> 3
      [] p = "MainTFor7" -> 7
      [] p = "MainTFor8" -> 8
      [] p \in {"MainVarArg0", "MainVarArg1", "MainVarArg2", "MainVarArg3"} -> 4
      [] p \in VarArgProtos -> 3
      [] p = "MainSetList" -> 4
      [] p = "MainSetListX" -> 3
      [] p = "Main3" -> 4
      [] OTHER -> 2

\* the registers and integer literals of the open prototypes
Registers == 0..(ProtoMaxStackSize("WM") - 1)
Ints == 1..MaxInt

\* the alphabet of an open prototype with nups upvalues
OpenBody(nups) ==
    {MoveI(a, b) : a \in Registers, b \in Registers}
    \cup {LoadII(a, n) : a \in Registers, n \in Ints}
    \cup {GetUpvalI(a, u) : a \in Registers, u \in 0..(nups - 1)}
    \cup {SetUpvalI(a, u) : a \in Registers, u \in 0..(nups - 1)}
    \cup {CloseI(a) : a \in Registers}
    \cup {ClosureI(a, q) : a \in Registers,
                           q \in {"W0", "WR0", "WR1"} \cup (IF nups > 0 THEN {"WU0"} ELSE {})}
    \cup {CallI(a, b) : a \in Registers, b \in 0..Cardinality(Registers)}
OpenEnd ==
    {TailCallI(a, b, k) : a \in Registers, b \in 0..Cardinality(Registers), k \in BOOLEAN}
    \cup {ReturnI(a, b, k) : a \in Registers, b \in 0..(Cardinality(Registers) + 1),
                             k \in BOOLEAN}
\* operands stay inside the prototype's registers
WellFormed(i) ==
    CASE i.op \in {"Call", "TailCall"} -> i.a + i.b <= Cardinality(Registers)
      [] i.op = "Return" -> i.a + i.b <= Cardinality(Registers) + 1
      [] i.op = "Move" -> i.a # i.b
      [] OTHER -> TRUE

ScriptedCode(p) ==
    CASE p = "Main" ->
           << {LoadII(0, 1)},
              {ClosureI(1, "Leaf"), ClosureI(1, "Cap2"), LoadII(1, 2)},
              {GetTabUpI(1, 0, "pcall"), GetTabUpI(1, 0, "create"), GetTabUpI(1, 0, "error")},
              {ClosureI(2, "Thrower"), ClosureI(2, "Nester"), ClosureI(2, "Indexer"),
               ClosureI(2, "Leaf"), GetTabUpI(2, 0, "error")},
              {CallI(1, 2)},
              {GetTabUpI(0, 0, "resume"), ReturnI(1, 0, TRUE)},
              {CallI(0, 2)},
              {ReturnI(0, 0, TRUE)} >>
      [] p = "Main2" ->
           << {GetTabUpI(1, 0, "create")},
              {ClosureI(2, "Thrower"), ClosureI(2, "Nester"), GetTabUpI(2, 0, "error")},
              {CallI(1, 2)},
              {MoveI(2, 1)},
              {GetTabUpI(1, 0, "resume")},
              {GetTabUpI(0, 0, "pcall")},
              {CallI(0, 3)},
              {ReturnI(0, 0, TRUE)} >>
      [] p = "Main3" ->
           << {LoadII(0, 1)},
              {ClosureI(1, "WR0"), ClosureI(1, "Tail1"), ClosureI(1, "Thrower")},
              {ClosureI(2, "Leaf"), LoadII(2, 2)},
              {CallI(2, 1), MoveI(3, 0)},
              {TailCallI(1, 0, FALSE), TailCallI(1, 0, TRUE),
               TailCallI(1, 2, FALSE), TailCallI(1, 2, TRUE), CallI(1, 2)},
              {ReturnI(0, 0, TRUE), ReturnI(0, 3, TRUE)} >>
      [] p = "Thrower" ->
           << {LoadII(0, 1)},
              {ClosureI(1, "Leaf"), LoadII(1, 2)},
              {GetTabUpI(1, 0, "error"), GetTabUpI(1, 0, "undefined"), LoadII(1, 1)},
              {CallI(1, 1)},
              {ReturnI(0, 1, TRUE)} >>
      [] p = "Nester" ->
           << {GetTabUpI(0, 0, "pcall")},
              {ClosureI(1, "Thrower"), GetTabUpI(1, 0, "error")},
              {CallI(0, 2)},
              {ReturnI(0, 0, FALSE), CallI(0, 1)},
              {ReturnI(0, 1, FALSE)} >>
      [] p = "Indexer" ->
           << {GetTabUpI(0, 0, "error")},
              {ReturnI(0, 1, FALSE)} >>
      [] p = "Leaf" ->
           << {LoadII(0, 2)},
              {ReturnI(0, 2, FALSE)} >>
      [] p = "Cap2" ->
           << {ReturnI(0, 1, FALSE)} >>
      [] p = "Tail1" ->
           << {ClosureI(0, "Tail2")},
              {TailCallI(0, 1, FALSE), TailCallI(0, 1, TRUE)} >>
      [] p = "Tail2" ->
           << {ClosureI(0, "TLeaf")},
              {TailCallI(0, 1, FALSE), TailCallI(0, 1, TRUE)} >>
      [] p = "TLeaf" ->
           << {LoadII(0, 1)},
              {ReturnI(0, 2, FALSE)} >>
      [] p = "MainArith" ->
           << {GetTabUpI(0, 0, g) : g \in {"adder", "adder2", "noadd", "plain"}}
                \cup {LoadII(0, 1)},
              {GetTabUpI(1, 0, g) : g \in {"adder", "adder2", "noadd", "plain"}}
                \cup {LoadII(1, 2)},
              {AddI(2, 0, 1)},
              {MmBinI(0, 1, "__add")},
              {ReturnI(2, 2, FALSE)} >>
      [] p = "MainArithI" ->
           << {GetTabUpI(0, 0, g) : g \in {"adder", "noadd"}} \cup {LoadII(0, 1)},
              {AddII(1, 0, 1)},
              {MmBinII(0, 1, "__add")},
              {ReturnI(1, 2, FALSE)} >>
      [] p = "MainArithK" ->
           << {GetTabUpI(0, 0, g) : g \in {"adder", "noadd"}} \cup {LoadII(0, 1)},
              {AddKI(1, 0, 1)},
              {MmBinKI(0, 1, "__add")},
              {ReturnI(1, 2, FALSE)} >>
      [] p = "MainIndex" ->
           << {LoadKI(0, 0, "s"), LoadKI(0, 1, ""), GetTabUpI(0, 0, "plain"),
               GetTabUpI(0, 0, "noadd")},
              {LoadKI(1, 0, "len")},
              {GetFieldI(1, 0, "len"), SelfI(1, 0, "len"), GetII(1, 0, 1),
               GetTableI(1, 0, 1)},
              {ReturnI(1, 2, FALSE)} >>
      [] p = "MainFor" ->
           << {LoadKI(0, n, "") : n \in ForInts},
              {LoadKI(1, n, "") : n \in ForInts},
              {LoadKI(2, n, "") : n \in ForInts} \cup {LoadKI(2, 0, "s")},
              {ForPrepI(0, 1)},
              {MoveI(4, 3)},
              {ForLoopI(0, 2)},
              {ReturnI(4, 2, FALSE)} >>
      [] p \in {"MainTFor7", "MainTFor8"} ->
           << {ClosureI(0, "IterState"), ClosureI(0, "IterControl"),
               GetTabUpI(0, 0, "callable"), LoadII(0, 1)},
              {LoadII(1, 1)},
              {TForCallI(0)},
              {TForLoopI(0, 2)},
              {ReturnI(2, 2, FALSE)} >>
      [] p = "IterState" ->
           << {ReturnI(0, 2, FALSE)} >>
      [] p = "IterControl" ->
           << {ReturnI(1, 2, FALSE)} >>
      [] p = "MainGc" ->
           << {NewTableI(0)},
              {ExtraArgI},
              {ReturnI(0, 1, FALSE), ReturnI(0, 2, FALSE), ClosureI(1, "Leaf")},
              {ReturnI(0, 2, FALSE)} >>
      [] p \in {"MainVarArg0", "MainVarArg1", "MainVarArg2", "MainVarArg3"} ->
           << {ClosureI(0, q) : q \in VarArgProtos},
              {LoadII(1, 1)},
              {LoadII(2, 2)},
              {LoadII(3, 3)},
              {CallI(0, NumArgs(p) + 1)},
              {ReturnI(0, 0, FALSE)} >>
      [] p \in VarArgProtos ->
           << {VarArgPrepI(NumParams(p))},
              {VarArgI(a, c) : a \in 0..1, c \in 0..4},
              {ReturnI(0, 0, FALSE), ReturnI(0, 3, FALSE), ReturnI(1, 0, FALSE),
               Return0I, Return1I(0), Return1I(1)} >>
      [] p \in {"MainSetList", "MainSetListX"} ->
           << {NewTableI(0)},
              {ExtraArgI},
              {LoadII(1, 1), LoadII(0, 1)},
              {ClosureI(2, "Leaf")},
              {CallI(2, 1)} \cup (IF p = "MainSetList" THEN {LoadII(3, 3)} ELSE {}),
              {SetListI(0, b, c, p = "MainSetListX") :
                  b \in 0..(ProtoMaxStackSize(p) - 1), c \in 0..1} >>
           \o (IF p = "MainSetListX" THEN << {ExtraArgAxI(1)} >> ELSE << >>)
           \o << {Return0I} >>
      [] p = "MainUnm" ->
           << {LoadKI(0, n, "") : n \in ForInts} \cup {LoadKI(0, 0, "s")},
              {UnmI(1, 0)},
              {ReturnI(1, 2, FALSE)} >>
      [] p = "MainTbc" ->
           << {GetTabUpI(0, 0, "closable"), GetTabUpI(0, 0, "plain")},
              {TbcI(0)},
              {CloseI(0), ReturnI(0, 1, TRUE), Return0I},
              {ReturnI(0, 1, TRUE)} >>
      [] p = "MainCall" ->
           << {GetTabUpI(0, 0, g) :
                  g \in {"callable", "callable2", "callable3", "callself", "plain"}}
                \cup {LoadII(0, 1)},
              {LoadII(1, 2)},
              {CallI(0, 2)},
              {ReturnI(0, 0, TRUE)} >>

\* closure.proto.code[pc]: the instructions that may stand at pc; an open
\* prototype ends (with a return or a tail call) once the budget is used up
Code(p, pc, used) ==
    IF p \in ScriptedProtos
    THEN IF pc < Len(ScriptedCode(p)) THEN ScriptedCode(p)[pc + 1] ELSE {}
    ELSE IF used < MaxSteps
         THEN {i \in OpenBody(Len(ProtoUpvalues(p))) \cup OpenEnd : WellFormed(i)}
         ELSE {i \in OpenEnd : WellFormed(i)}

(* --------------------- the VM as one record --------------------------- *)
\* The operations below are functions from the VM's state to its next state;
\* err carries the ErrorKind of a Result::Err on its way to the scheduler and
\* panic records a Rust panic (unwrap of None, index out of range, overflow).
M ==
    [thread_stack |-> thread_stack, status |-> status, stack |-> stack,
     frames |-> frames, open_upvalues |-> open_upvalues, upvalues |-> upvalues,
     state |-> state, tables |-> tables, steps |-> steps,
     outcome |-> outcome, gc |-> gc, err |-> "", panic |-> FALSE]

Install(m) ==
    /\ thread_stack' = m.thread_stack
    /\ status' = m.status
    /\ stack' = m.stack
    /\ frames' = m.frames
    /\ open_upvalues' = m.open_upvalues
    /\ upvalues' = m.upvalues
    /\ state' = m.state
    /\ tables' = m.tables
    /\ steps' = m.steps
    /\ outcome' = m.outcome
    /\ gc' = m.gc
    /\ UNCHANGED <<lexvars, math>>

\* the part of the VM the history variable `before` keeps
Snapshot(m) ==
    [thread_stack |-> m.thread_stack, status |-> m.status, stack |-> m.stack,
     frames |-> m.frames, open_upvalues |-> m.open_upvalues, upvalues |-> m.upvalues,
     state |-> m.state, tables |-> m.tables]

\* a step of the history: the operation, its operands, the thread it ran on
\* and the pc the interpreter loop stood at (the index of the instruction, when
\* the step is one)
Event(op, a, b, k) ==
    [op |-> op, a |-> a, b |-> b, c |-> 0, key |-> "", k |-> k,
     thread |-> IF thread_stack # <<>> THEN thread_stack[Len(thread_stack)] ELSE 0,
     pc |-> state.pc, err |-> "", arm |-> "none"]
InsnEvent(i) == [Event(i.op, i.a, i.b, i.k) EXCEPT !.c = i.c, !.key = i.key]

Record(ev, snap) == last' = ev /\ before' = snap

Panic(m) == [m EXCEPT !.panic = TRUE]
Raise(m, kind) == [m EXCEPT !.err = kind]

\* no frame is being executed. top0 is history: the stack top the frame would
\* have saved had the loop never left it for the collector (0: the frame is
\* entered anew)
NoState == [active |-> FALSE, pc |-> 0, saved_stack_top |-> 0, top0 |-> 0]
NoUpvalues == [i \in {} |-> 0]

\* LuaThread::new(): empty stack, frames and open-upvalue map, status Resumable
NewThread(m, t) ==
    [m EXCEPT !.stack[t] = <<>>, !.frames[t] = <<>>,
              !.open_upvalues[t] = NoUpvalues,
              !.status[t] = [tag |-> "Resumable", kind |-> ""]]

\* LuaThread::traceback: one entry per Lua frame, innermost first, naming the
\* frame's function slot and its saved pc
RECURSIVE traceback(_)
traceback(fs) ==
    IF fs = <<>> THEN <<>>
    ELSE IF Last(fs).kind = "Lua"
         THEN <<[bottom |-> Last(fs).bottom, pc |-> Last(fs).pc]>> \o traceback(Front(fs))
         ELSE traceback(Front(fs))

\* LuaThread::close_upvalues(boundary): every open cell with index >= boundary
\* becomes Closed(stack[index]) and leaves the map
ClosingIndices(m, t, boundary) == {i \in DOMAIN m.open_upvalues[t] : i >= boundary}
close_upvalues(m, t, boundary) ==
    LET closing == ClosingIndices(m, t, boundary)
        cellsClosing == {m.open_upvalues[t][i] : i \in closing}
    IN IF \E i \in closing : i >= Len(m.stack[t])
       THEN Panic(m)
       ELSE [m EXCEPT
               !.upvalues = [c \in DOMAIN m.upvalues |->
                   IF c \in cellsClosing
                   THEN ClosedCell(Get(m.stack[t], m.upvalues[c].index))
                   ELSE m.upvalues[c]],
               !.open_upvalues[t] =
                   [i \in DOMAIN m.open_upvalues[t] \ closing |-> m.open_upvalues[t][i]]]

\* Vm::metamethod_of_object(Metamethod::Call, value)
metamethod_of_object_call(value) == metamethod_of_object("__call", value)

\* Vm::func_name_from_call: a name is found for a nil callee
func_name_from_call(value) == value.ty = "Nil"

\* (the metamethod written over the callee)
InsertMetamethodOverCallee(s, bottom, metamethod) == Set(s, bottom, metamethod)
\* thread.stack.insert(bottom, metatable): the metamethod takes the callee's
\* slot; the callee and what follows it move up by one
InsertMetamethod(s, bottom, metamethod) == Insert(s, bottom, metamethod)

\* Vm::push_frame(thread, bottom) after `inserted` metamethods were inserted.
\* The code counts nothing and recurses for as long as a __call metamethod is
\* found, the stack one value longer each time; the model follows
\* MaxCallChain insertions and then stops: what is left of such a call is a
\* process that ends when memory or the native stack is used up (a panic here)
RECURSIVE PushFrameAfter(_, _, _, _)
PushFrameAfter(m, t, bottom, inserted) ==
    LET value == Get(m.stack[t], bottom) IN
    IF bottom >= Len(m.stack[t]) THEN Panic(m)
    ELSE IF value.ty = "LuaClosure"
    THEN [m EXCEPT !.frames[t] = Append(@, LuaFrame(bottom))]
    ELSE IF value.ty = "NativeFunction"
    THEN [m EXCEPT !.frames[t] = Append(@, NativeFrame(bottom))]
    ELSE IF metamethod_of_object_call(value) # Nil
    THEN IF inserted >= MaxCallChain THEN Panic(m)
         ELSE PushFrameAfter([m EXCEPT !.stack[t] =
                                InsertMetamethod(@, bottom,
                                                 metamethod_of_object_call(value))],
                             t, bottom, inserted + 1)
    ELSE IF func_name_from_call(value) THEN Raise(m, "Other")
    ELSE Raise(m, "TypeError")

\* Vm::push_frame(thread, bottom)
push_frame(m, t, bottom) == PushFrameAfter(m, t, bottom, 0)

(* ----------------- execute_single_step: the Err arm ------------------- *)
\* frames.iter_mut().enumerate().rev().find_map(..): the index (1-based) of the
\* topmost ProtectedCallContinuation frame, 0 if there is none
\* (a search from the bottom instead: the outermost protected call)
protection_boundary_outermost(fs) ==
    LET S == {i \in 1..Len(fs) : fs[i].kind = "ProtectedCallContinuation"}
    IN IF S = {} THEN 0 ELSE CHOOSE i \in S : \A j \in S : i <= j
protection_boundary(fs) ==
    LET S == {i \in 1..Len(fs) : fs[i].kind = "ProtectedCallContinuation"}
    IN IF S = {} THEN 0 ELSE CHOOSE i \in S : \A j \in S : j <= i

\* Some((i, *callee_bottom)): the boundary handed to close_upvalues
\* (the slot above the callee instead of the callee's own)
boundary_above_callee(frame) == frame.callee_bottom + 1
boundary_of(frame) == frame.callee_bottom

\* the arm `if let Some((frame_index, boundary)) = protection_boundary`; the
\* continuation's set_args(Err(kind)) happened inside find_map
Unwind(m, t, i, kind) ==
    LET m1 == [m EXCEPT !.frames[t][i].args = ErrArgs(kind)]
        m2 == close_upvalues(m1, t, boundary_of(m.frames[t][i]))
    IN [m2 EXCEPT !.frames[t] = SubSeq(@, 1, i)]

\* thread_ref.status = ThreadStatus::Error(kind.clone())
\* (the status left as it was)
MarkErrorSkipped(m, t, kind) == m
MarkError(m, t, kind) == [m EXCEPT !.status[t] = [tag |-> "Error", kind |-> kind]]

\* `if self.thread_stack.is_empty()`: the traceback is taken, then the thread
\* is replaced by LuaThread::new(), then Err goes to the host
\* (the thread replaced first, the traceback taken from what is left)
RaiseToHostCleared(m, t, kind) ==
    LET m2 == NewThread(m, t)
        tb == traceback(m2.frames[t])
    IN [m2 EXCEPT !.outcome = [tag |-> "Err", kind |-> kind, traceback |-> tb]]
RaiseToHost(m, t, kind) ==
    LET tb == traceback(m.frames[t])
        m2 == NewThread(m, t)
    IN [m2 EXCEPT !.outcome = [tag |-> "Err", kind |-> kind, traceback |-> tb]]

\* the resumer's top frame must be a ResumeContinuation; it gets Err(kind)
DeliverToResumer(m, kind) ==
    LET r == Last(m.thread_stack)
        rf == m.frames[r]
    IN IF rf # <<>> /\ Last(rf).kind = "ResumeContinuation"
       THEN [m EXCEPT !.frames[r][Len(rf)].args = ErrArgs(kind)]
       ELSE Panic(m)

\* the else arm: no protection boundary on the running thread
\* (every thread's escaping error returned to the host)
EscapeToHost(m, t, kind) ==
    RaiseToHost(MarkError([m EXCEPT !.thread_stack = Front(@)], t, kind), t, kind)
Escape(m, t, kind) ==
    LET m1 == MarkError([m EXCEPT !.thread_stack = Front(@)], t, kind)
    IN IF m1.thread_stack = <<>>
       THEN RaiseToHost(m1, t, kind)
       ELSE DeliverToResumer(m1, kind)

\* (the thread at the bottom of the thread stack)
BottomThread(m) == IF m.thread_stack # <<>> THEN m.thread_stack[1] ELSE main_thread
\* Vm::current_thread on the VM m: the top of the thread stack
CurrentThread(m) == IF m.thread_stack # <<>> THEN Last(m.thread_stack) ELSE main_thread

HandleError(m0, kind) ==
    LET m == [m0 EXCEPT !.err = "", !.state = NoState]
        t == CurrentThread(m)
        i == protection_boundary(m.frames[t])
    IN IF i > 0 THEN Unwind(m, t, i, kind) ELSE Escape(m, t, kind)

\* what one turn of execute_single_step's loop makes of execute_next_frame's
\* result: a panic aborts execute, an Err goes through the Err arm
Aborted(m) ==
    [m EXCEPT !.state = NoState,
              !.outcome = [tag |-> "Panic", kind |-> "", traceback |-> <<>>]]

\* which arm of the Err branch an error takes on the VM m (for the history)
Arm(m) ==
    LET fs == m.frames[Last(m.thread_stack)]
    IN IF \E i \in 1..Len(fs) : fs[i].kind = "ProtectedCallContinuation" THEN "unwind"
       ELSE IF Len(m.thread_stack) = 1 THEN "host"
       ELSE "resumer"

Finish(m, ev) ==
    IF m.panic
    THEN Install(Aborted(m)) /\ Record([ev EXCEPT !.arm = "panic"], Snapshot(M))
    ELSE IF m.err # ""
    THEN LET h == HandleError(m, m.err)
         IN IF h.panic
            THEN /\ Install(Aborted(h))
                 /\ Record([ev EXCEPT !.err = m.err, !.arm = "panic"], Snapshot(m))
            ELSE /\ Install(h)
                 /\ Record([ev EXCEPT !.err = m.err, !.arm = Arm(m)], Snapshot(m))
    ELSE Install(m) /\ Record(ev, Snapshot(M))

Running == outcome.tag = "Running" /\ thread_stack # <<>>


(* ------------------------------ Init ---------------------------------- *)
Idle == [tag |-> "Idle", kind |-> "", traceback |-> <<>>]

\* the token a call hands out when there is none (Ok(None))
NoToken == [kind |-> "None", text |-> <<>>, at |-> 0]
\* Lexer::new(gc, reader) on a reader that yields the bytes src: nothing is
\* read yet, lineno is 1
LexerNew(src) ==
    /\ source = src
    /\ inner = [pos |-> 0, peeked |-> <<>>, lineno |-> 1]
    /\ peeked = <<>>
    /\ handed = [op |-> "new", tok |-> NoToken, err |-> "", lineno |-> 1, taken |-> 0]

\* a native function of the math library is about to be called with args (the
\* callee, args[0] in the code, is left out)
NoResult == [tag |-> "", value |-> Nil, kind |-> "", nth |-> 0, message |-> ""]
MathNew(args) == math = [fn |-> "new", args |-> args, result |-> NoResult]

\* Vm::new: the main thread exists, nothing runs; Vm::load has allocated the
\* closed cell that holds the globals table
VmNew ==
    /\ thread_stack = <<>>
    /\ status = [t \in ThreadIds |->
                    IF t = main_thread THEN [tag |-> "Resumable", kind |-> ""]
                    ELSE [tag |-> "Unallocated", kind |-> ""]]
    /\ stack = [t \in ThreadIds |-> <<>>]
    /\ frames = [t \in ThreadIds |-> <<>>]
    /\ open_upvalues = [t \in ThreadIds |-> NoUpvalues]
    /\ upvalues = <<ClosedCell(TableV("globals"))>>
    /\ state = NoState
    /\ tables = [nm \in TableNames |-> <<>>]
    /\ steps = 0
    /\ outcome = Idle
    /\ gc = [pending |-> FALSE, stepped |-> FALSE]
    /\ last = [op |-> "New", a |-> 0, b |-> 0, c |-> 0, key |-> "", k |-> FALSE,
               thread |-> 0, pc |-> 0, err |-> "", arm |-> "none"]
    /\ before = [thread_stack |-> <<>>, status |-> status, stack |-> stack,
                 frames |-> frames, open_upvalues |-> open_upvalues,
                 upvalues |-> upvalues, state |-> NoState, tables |-> tables]

\* the runtime is created; no source is being lexed
Init == VmNew /\ LexerNew(<<>>) /\ MathNew(<<>>)

(* --------------------------- Runtime::execute ------------------------- *)
\* the closure handed to heap.with: the value f returned is pushed on the main
\* thread and a frame is pushed for it; a push_frame error returns at once,
\* with an empty traceback
ExecuteStart(m, value) ==
    LET m1 == [m EXCEPT !.status[main_thread] = [tag |-> "Unresumable", kind |-> ""],
                        !.thread_stack = Append(@, main_thread),
                        !.stack[main_thread] = Append(@, value)]
        m2 == push_frame(m1, main_thread, 0)
    IN IF m2.err # ""
       THEN [m2 EXCEPT !.err = "",
                       !.outcome = [tag |-> "Err", kind |-> m2.err, traceback |-> <<>>]]
       ELSE [m2 EXCEPT !.outcome = [tag |-> "Running", kind |-> "", traceback |-> <<>>]]

Execute ==
    /\ outcome.tag = "Idle"
    /\ \E value \in {LoadedClosure(p) : p \in {"Main", "Main2", "Main3", "WM"} \cup MainProtos}
                    \cup {Nil, TableV("callable"), TableV("plain")} :
         /\ Install(ExecuteStart(M, value))
         /\ Record(Event("Execute", 0, 0, FALSE), Snapshot(M))

\* (Exit whatever the collector asks for)
ExitGuardNoGc(pending) == TRUE
\* lines 284-288: Exit only if gc.should_perform_gc() is false
ExitGuard(pending) == ~pending

\* RuntimeAction::Exit: the thread stack is empty and no GC step is due
Exit ==
    /\ outcome.tag = "Running"
    /\ thread_stack = <<>>
    /\ ExitGuard(gc.pending)
    /\ outcome' = [tag |-> "Ok", kind |-> "", traceback |-> <<>>]
    /\ Record(Event("Exit", 0, 0, FALSE), Snapshot(M))
    /\ UNCHANGED <<thread_stack, status, stack, frames, open_upvalues, upvalues, state, tables, steps,
                   gc>>
    /\ UNCHANGED <<lexvars, math>>

\* RuntimeAction::StepGc: execute_single_step returns it after a turn of the
\* loop (line 279) or with an empty thread stack (line 284) when
\* gc.should_perform_gc() holds, and Runtime::execute runs heap.step(); what
\* should_perform_gc() returns after the step is the collector's matter
StepGc ==
    /\ outcome.tag = "Running"
    /\ ~state.active
    /\ gc.pending
    /\ ~gc.stepped \/ thread_stack = <<>>
    /\ \E more \in BOOLEAN : gc' = [pending |-> more, stepped |-> TRUE]
    /\ Record(Event("StepGc", 0, 0, FALSE), Snapshot(M))
    /\ UNCHANGED <<thread_stack, status, stack, frames, open_upvalues, upvalues, state, tables, steps,
                   outcome>>
    /\ UNCHANGED <<lexvars, math>>

\* a turn of the loop of execute_single_step starts: right after the call
\* (the check of line 279 comes after a turn), or once no GC step is due
AtTurn == ~gc.pending \/ gc.stepped
Turn(m) == [m EXCEPT !.gc.stepped = FALSE]

(* ------------------------- Vm::execute_frame -------------------------- *)
TopFrame(m) == Last(m.frames[Last(m.thread_stack)])
TopIs(kind) ==
    /\ Running
    /\ AtTurn
    /\ frames[current_thread] # <<>>
    /\ Last(frames[current_thread]).kind = kind

\* lines 19-37: the frame is cloned, the stack grown to base + max_stack_size
EnterFrameStep(m) ==
    LET t == Last(m.thread_stack)
        frame == TopFrame(m)
        closure == Get(m.stack[t], frame.bottom)
    IN [m EXCEPT !.stack[t] = Resize(@, frame.base + ProtoMaxStackSize(closure.name)),
                 !.state = [active |-> TRUE, pc |-> frame.pc,
                            saved_stack_top |-> Len(m.stack[t]),
                            top0 |-> IF m.state.top0 > 0 THEN m.state.top0
                                     ELSE Len(m.stack[t])]]

EnterFrame ==
    /\ TopIs("Lua")
    /\ ~state.active
    /\ Install(EnterFrameStep(Turn(M)))
    /\ Record(Event("EnterFrame", 0, 0, FALSE), Snapshot(M))

\* the running closure: stack[frame.bottom].as_lua_closure().unwrap()
Closure0(m) == Get(m.stack[Last(m.thread_stack)], TopFrame(m).bottom)

\* thread_ref.current_frame().pc = state.pc
SavePc(m) ==
    LET t == Last(m.thread_stack)
    IN [m EXCEPT !.frames[t][Len(m.frames[t])].pc = m.state.pc]
\* return Ok(()) from execute_frame
Leave(m) == [m EXCEPT !.state = NoState]
\* state.pc += 1 after the fetch (an open prototype's instruction is counted)
Fetch(m) ==
    [m EXCEPT !.state.pc = @ + 1,
              !.steps = IF Closure0(m).name \in OpenProtos /\ @ < MaxSteps THEN @ + 1 ELSE @]
\* lines 785-788: after an instruction that falls out of the match
EndOfInsn(m, debt) ==
    IF debt THEN [Leave(SavePc(m)) EXCEPT !.state.top0 = m.state.top0] ELSE m

\* state.stack[r]
Reg(m, r) == Get(m.stack[Last(m.thread_stack)], TopFrame(m).base + r)
\* state.stack[r] = x
SetReg(m, r, x) ==
    LET t == Last(m.thread_stack)
    IN [m EXCEPT !.stack[t] = Set(@, TopFrame(m).base + r, x)]


(* ---------------------- Upvalue::get / Upvalue::set ------------------- *)
\* (lower_stack, stack) = thread_ref.stack.split_at_mut(frame.base)
LowerStack(s, base) == SubSeq(s, 1, base)
Window(s, base) == SubSeq(s, base + 1, Len(s))
\* the position inside the frame's window of an index at or above base
\* (the thread-wide index used inside the window)
WindowIndexAbsolute(index, base) == index
WindowIndex(index, base) == index - base

\* an index the slice it is looked up in does not have panics
UpvalueInRange(m, uv) ==
    LET t == Last(m.thread_stack)
        base == TopFrame(m).base
    IN \/ ~uv.open
       \/ /\ uv.thread = t
          /\ \/ uv.index < base
             \/ WindowIndex(uv.index, base) < Len(Window(m.stack[t], base))
       \/ uv.thread # t /\ uv.index < Len(m.stack[uv.thread])

\* Upvalue::get(current_thread, base, lower_stack, stack)
UpvalueGet(m, uv) ==
    LET t == Last(m.thread_stack)
        base == TopFrame(m).base
    IN IF uv.open
       THEN IF uv.thread = t
            THEN IF uv.index < base
                 THEN Get(LowerStack(m.stack[t], base), uv.index)
                 ELSE Get(Window(m.stack[t], base), WindowIndex(uv.index, base))
            ELSE Get(m.stack[uv.thread], uv.index)
       ELSE uv.value

\* Upvalue::set(gc, current_thread, base, lower_stack, stack, value) on cell c
UpvalueSet(m, c, value) ==
    LET t == Last(m.thread_stack)
        base == TopFrame(m).base
        uv == m.upvalues[c]
        lower == LowerStack(m.stack[t], base)
        window == Window(m.stack[t], base)
    IN IF uv.open
       THEN IF uv.thread = t
            THEN IF uv.index < base
                 THEN [m EXCEPT !.stack[t] = Set(lower, uv.index, value) \o window]
                 ELSE [m EXCEPT !.stack[t] =
                          lower \o Set(window, WindowIndex(uv.index, base), value)]
            ELSE [m EXCEPT !.stack[uv.thread] = Set(@, uv.index, value)]
       ELSE [m EXCEPT !.upvalues[c] = ClosedCell(value)]

\* ExecutionState::resolve_upvalue / resolve_upvalue_mut: the frame's base and
\* the two halves of the stack are handed to the upvalue
resolve_upvalue(m, uv) == UpvalueGet(m, uv)
resolve_upvalue_mut(m, c, value) == UpvalueSet(m, c, value)

(* --------------------------- instructions ----------------------------- *)
\* OpCode::Move
Move(m0, a, b) == LET m == Fetch(m0) IN SetReg(m, a, Reg(m, b))
\* OpCode::LoadI
LoadI(m0, a, n) == LET m == Fetch(m0) IN SetReg(m, a, IntV(n))

\* OpCode::GetUpval
GetUpval(m0, a, b) ==
    LET m == Fetch(m0)
        uv == m.upvalues[Closure0(m).up[b + 1]]
    IN IF UpvalueInRange(m, uv) THEN SetReg(m, a, resolve_upvalue(m, uv)) ELSE Panic(m)

\* OpCode::SetUpval
SetUpval(m0, a, b) ==
    LET m == Fetch(m0)
        c == Closure0(m).up[b + 1]
    IN IF UpvalueInRange(m, m.upvalues[c])
       THEN resolve_upvalue_mut(m, c, Reg(m, a))
       ELSE Panic(m)

\* Vm::call_index_metamethod on a table without a metatable: nil
call_index_metamethod(table, key) == Nil

\* OpCode::GetTabUp: A := upvalue[B][constant C]
GetTabUp(m0, a, b, key, debt) ==
    LET m == Fetch(m0)
        uv == m.upvalues[Closure0(m).up[b + 1]]
        table_value == resolve_upvalue(m, uv)
        raw_value == get_field(key)
    IN IF ~UpvalueInRange(m, uv) THEN Panic(m)
       ELSE IF table_value.ty = "Table"
       THEN IF raw_value = Nil
            THEN Leave(SetReg(SavePc(m), a, call_index_metamethod(table_value, key)))
            ELSE EndOfInsn(SetReg(m, a, raw_value), debt)
       ELSE Raise(m, "TypeError")

\* OpCode::NewTable: A gets a new table, the ExtraArg that follows is skipped;
\* pending: the allocation has brought the collector to ask for a step
NewTable(m0, a, pending) ==
    LET m == Fetch(m0)
    IN [SetReg(m, a, TableV("new")) EXCEPT !.state.pc = @ + 1,
                                           !.gc.pending = @ \/ pending]

\* Table::set(key, value) for each value of a run: the array entries
\* offset+1, offset+2, ... get the values in order
TableSetRun(array, offset, values) ==
    [j \in DOMAIN array \cup {offset + i : i \in 1..Len(values)} |->
        IF j - offset \in 1..Len(values) THEN values[j - offset] ELSE array[j]]

\* OpCode::SetList: ax is the operand of the instruction that follows; checks:
\* the build traps an overflowing subtraction (otherwise it wraps and the
\* slice below is out of range)
SetList(m0, a, b, c, k, ax, checks, debt) ==
    LET m1 == Fetch(m0)
        t == Last(m1.thread_stack)
        ra == Reg(m1, a)
        top == m1.state.saved_stack_top
        n == IF b > 0 THEN b ELSE top - a - 1
        offset == IF k THEN c + ax * 256 ELSE c
        m == IF k THEN [m1 EXCEPT !.state.pc = @ + 1] ELSE m1
        window == Window(m.stack[t], TopFrame(m).base)
    IN IF n < 0 /\ checks THEN Panic(m)
       ELSE IF ra.ty # "Table" THEN Raise(m, "TypeError")
       ELSE IF n < 0 \/ a + n >= Len(window) THEN Panic(m)
       ELSE EndOfInsn([m EXCEPT !.tables[ra.name] =
                          TableSetRun(@, offset, SubSeq(window, a + 2, a + n + 1))],
                      debt)

\* OpCode::LoadK
LoadK(m0, a, constant) == LET m == Fetch(m0) IN SetReg(m, a, constant)

\* Table::get / Table::get_field: the raw value under a key
TableGet(table, key) ==
    IF key.ty # "String" THEN Nil
    ELSE IF table.name = "globals" THEN get_field(key.name)
    ELSE IF table.name = "string" /\ key.name = "len" THEN NativeV("answer")
    ELSE Nil

\* GetTable, GetI and GetField: A := R[B][key]
GetIndexed(m0, a, b, key, debt) ==
    LET m == Fetch(m0)
        rb == Reg(m, b)
        raw_value == TableGet(rb, key)
    IN IF rb.ty = "Table"
       THEN IF raw_value = Nil
            THEN Leave(SetReg(SavePc(m), a, call_index_metamethod(rb, key)))
            ELSE EndOfInsn(SetReg(m, a, raw_value), debt)
       ELSE Raise(m, "TypeError")
\* OpCode::GetTable: the key is R[C]
GetTable(m0, a, b, c, debt) == GetIndexed(m0, a, b, Reg(Fetch(m0), c), debt)
\* OpCode::GetI: the key is the integer C
GetI(m0, a, b, c, debt) == GetIndexed(m0, a, b, IntV(c), debt)
\* OpCode::GetField: the key is the string constant K[C]
GetField(m0, a, b, key, debt) == GetIndexed(m0, a, b, StrV(key), debt)

\* OpCode::Self_: A+1 := R[B]; A := R[B][K[C]]
Self_(m0, a, b, key, debt) ==
    LET m1 == Fetch(m0)
        rb == Reg(m1, b)
        m == SetReg(m1, a + 1, rb)
        raw_value == TableGet(rb, StrV(key))
    IN IF rb.ty = "Table"
       THEN IF raw_value = Nil
            THEN Leave(SetReg(SavePc(m), a, call_index_metamethod(rb, StrV(key))))
            ELSE EndOfInsn(SetReg(m, a, raw_value), debt)
       ELSE Raise(m, "TypeError")

\* the native functions stored in metatables: the call's only result is the
\* first argument, the second argument, or 42 (a missing argument is nil)
NativeMetamethodResult(name, args) ==
    CASE name = "first" -> IF Len(args) >= 1 THEN args[1] ELSE Nil
      [] name = "second" -> IF Len(args) >= 2 THEN args[2] ELSE Nil
      [] OTHER -> IntV(42)
\* ops::do_arithmetic and its immediate / constant forms with
\* Integer::wrapping_add: on two integers A gets the sum and the MmBin that
\* follows is skipped; otherwise the instruction does nothing
do_arithmetic(m, a, lhs, rhs) ==
    IF lhs.ty = "Integer" /\ rhs.ty = "Integer"
    THEN [SetReg(m, a, IntV(Wrap(lhs.v + rhs.v))) EXCEPT !.state.pc = @ + 1]
    ELSE m
\* OpCode::Add
Add(m0, a, b, c) == LET m == Fetch(m0) IN do_arithmetic(m, a, Reg(m, b), Reg(m, c))
\* OpCode::AddI
AddImm(m0, a, b, c) == LET m == Fetch(m0) IN do_arithmetic(m, a, Reg(m, b), IntV(c))
\* OpCode::AddK
AddK(m0, a, b, c) == LET m == Fetch(m0) IN do_arithmetic(m, a, Reg(m, b), IntV(c))

\* Vm::execute_value(value, args): the value is called and run to its end;
\* its first result comes back. Only native functions are metamethods here.
execute_value(value, args) ==
    IF value.ty = "NativeFunction" /\ value.name \in MetamethodNames
    THEN [err |-> "", value |-> NativeMetamethodResult(value.name, args)]
    ELSE [err |-> IF func_name_from_call(value) THEN "Other" ELSE "TypeError",
          value |-> Nil]

\* closure.proto.code[state.pc - 2], state.pc being already incremented
prev_insn(m) ==
    CHOOSE i \in Code(Closure0(m).name, m.state.pc - 2, m.steps) : TRUE

\* ra.metatable().or_else(|| rb.metatable())
MmBinMetatable(ra, rb) == IF metatable(ra) # Nil THEN metatable(ra) ELSE metatable(rb)

\* (the MmBin's own A as the destination)
MmBinDestOwn(insn_a, prev) == insn_a
\* the register the result goes to: prev_insn.a()
MmBinDest(insn_a, prev) == prev.a

\* OpCode::MmBin
MmBin(m0, a, b, event) ==
    LET m1 == Fetch(m0)
        ra == Reg(m1, a)
        rb == Reg(m1, b)
        m == SavePc(m1)
        mt == MmBinMetatable(ra, rb)
        result == execute_value(MetatableField(mt.name, event), <<ra, rb>>)
    IN IF m1.state.pc < 2 THEN Panic(m1)
       ELSE IF mt = Nil THEN Raise(m, "TypeError")
       ELSE IF result.err # "" THEN Raise(m, result.err)
       ELSE Leave(SetReg(m, MmBinDest(a, prev_insn(m1)), result.value))

\* OpCode::MmBinI and OpCode::MmBinK: todo!()
MmBinTodo(m0) == Panic(Fetch(m0))

\* an i64 result out of range: a panic in a build with overflow checks, the
\* wrapped value without them
Overflows(n) == n < MinInteger \/ n > MaxInteger
Abs(n) == IF n < 0 THEN -n ELSE n
\* Rust's integer division: the quotient truncated toward zero
TruncDiv(x, y) ==
    IF (x >= 0) = (y > 0) THEN Abs(x) \div Abs(y) ELSE -(Abs(x) \div Abs(y))

\* ForPrep, lines 628-632: the number of iterations after the first
ForPrepCount(init, limit, step) ==
    IF step > 0
    THEN TruncDiv(Wrap(limit - init), step)
    ELSE TruncDiv(Wrap(init - limit), Wrap(Wrap(-(step + 1)) + 1))
ForPrepOverflows(init, limit, step) ==
    IF step > 0
    THEN Overflows(limit - init)
    ELSE Overflows(init - limit) \/ Overflows(-(step + 1) + 1)

\* OpCode::Unm: `-x` on an integer; checks: the build has overflow checks,
\* and without them the negation wraps. The model has no floats: what is not
\* an integer has no number to negate and reaches todo!("__unm"), a panic
Unm(m0, a, b, checks) ==
    LET m == Fetch(m0)
        rb == Reg(m, b)
    IN IF rb.ty # "Integer" THEN Panic(m)
       ELSE IF checks /\ Overflows(-rb.v) THEN Panic(m)
       ELSE SetReg(m, a, IntV(Wrap(-rb.v)))

\* OpCode::ForPrep; checks: the build has overflow checks
ForPrep(m0, a, bx, checks) ==
    LET m == Fetch(m0)
        init == Reg(m, a)
        limit == Reg(m, a + 1)
        step == Reg(m, a + 2)
        skip == IF step.v > 0 THEN init.v > limit.v ELSE init.v < limit.v
    IN IF init.ty # "Integer" \/ limit.ty # "Integer" \/ step.ty # "Integer"
       THEN Panic(m)
       ELSE IF step.v = 0 THEN Panic(m)
       ELSE IF skip THEN [m EXCEPT !.state.pc = @ + bx + 1]
       ELSE IF checks /\ ForPrepOverflows(init.v, limit.v, step.v) THEN Panic(m)
       ELSE SetReg(SetReg(m, a + 3, init), a + 1,
                   IntV(ForPrepCount(init.v, limit.v, step.v)))

\* OpCode::ForLoop; checks: the build has overflow checks
ForLoop(m0, a, bx, checks) ==
    LET m == Fetch(m0)
        step == Reg(m, a + 2)
        count == Reg(m, a + 1)
        index == Reg(m, a)
        next == IntV(Wrap(index.v + step.v))
    IN IF step.ty # "Integer" \/ count.ty # "Integer" THEN Panic(m)
       ELSE IF count.v > 0
       THEN IF index.ty # "Integer" \/ bx > m.state.pc THEN Panic(m)
            ELSE IF checks /\ Overflows(index.v + step.v) THEN Panic(m)
            ELSE [SetReg(SetReg(SetReg(m, a + 1, IntV(count.v - 1)), a, next), a + 3, next)
                    EXCEPT !.state.pc = @ - bx]
       ELSE m

\* slice::fill(Value::Nil) on lo..hi
FillNil(s, lo, hi) == [k \in 1..Len(s) |-> IF lo < k /\ k <= hi THEN Nil ELSE s[k]]

\* OpCode::VarArgPrep. num_extra_args is a usize: with fewer arguments than
\* fixed parameters the subtraction overflows, which panics in a build with
\* overflow checks and wraps in one without; a negative number here stands
\* for the wrapped value 2^64 - |n|
VarArgPrep(m0, num_fixed_args, checks, debt) ==
    LET m == Fetch(m0)
        t == Last(m.thread_stack)
        frame == TopFrame(m)
        saved_stack_top == m.state.saved_stack_top
        num_extra_args == saved_stack_top - frame.bottom - 1 - num_fixed_args
        new_base == saved_stack_top + 1
        m1 == [m EXCEPT !.frames[t][Len(m.frames[t])] =
                  [@ EXCEPT !.pc = m.state.pc, !.base = new_base,
                            !.num_extra_args = num_extra_args]]
        grown == Resize(m.stack[t], new_base + ProtoMaxStackSize(Closure0(m).name))
    IN IF num_extra_args < 0 /\ checks THEN Panic(m)
       ELSE IF num_extra_args # 0
       THEN IF ~CopyOk(grown, frame.bottom, frame.bottom + num_fixed_args + 1,
                       saved_stack_top)
            THEN Panic(m)
            ELSE Leave([m1 EXCEPT !.stack[t] =
                          FillNil(CopyWithin(grown, frame.bottom,
                                             frame.bottom + num_fixed_args + 1,
                                             saved_stack_top),
                                  frame.bottom + 1, frame.bottom + num_fixed_args + 1)])
       ELSE EndOfInsn(m, debt)

\* (the extra arguments copied last first)
VarArgCopyReversed(s, lo, hi, dest) ==
    [k \in 1..Len(s) |->
        IF dest < k /\ k <= dest + (hi - lo) THEN s[hi - (k - dest) + 1] ELSE s[k]]
\* copy_within(extra_args_bottom..extra_args_bottom + num_copied, frame.base + a)
VarArgCopy(s, lo, hi, dest) == CopyWithin(s, lo, hi, dest)

\* OpCode::VarArg; a wrapped num_extra_args is larger than any count, and
\* asked for whole (C = 0) it overflows the new stack length or reverses the
\* copied range, a panic in either build
VarArg(m0, a, c, debt) ==
    LET m == Fetch(m0)
        t == Last(m.thread_stack)
        frame == TopFrame(m)
        wrapped == frame.num_extra_args < 0
        num_wanted == IF c > 0 THEN c - 1 ELSE frame.num_extra_args
        new_stack_len == frame.base + a + num_wanted
        grown == Resize(m.stack[t], new_stack_len)
        extra_args_bottom == frame.base - 1 - frame.num_extra_args
        num_copied ==
            IF wrapped \/ num_wanted < frame.num_extra_args THEN num_wanted
            ELSE frame.num_extra_args
        copied == VarArgCopy(grown, extra_args_bottom, extra_args_bottom + num_copied,
                             frame.base + a)
    IN IF num_wanted = 0 THEN EndOfInsn(m, debt)
       ELSE IF num_wanted < 0 THEN Panic(m)
       ELSE IF ~CopyOk(grown, extra_args_bottom, extra_args_bottom + num_copied,
                       frame.base + a)
       THEN Panic(m)
       ELSE Leave([SavePc(m) EXCEPT !.stack[t] =
                     IF ~wrapped /\ num_wanted > frame.num_extra_args
                     THEN FillNil(copied, frame.base + a + frame.num_extra_args,
                                  frame.base + a + num_wanted)
                     ELSE copied])

\* OpCode::Tbc => todo!("TBC"): a panic
Tbc(m0, a) == Panic(Fetch(m0))

\* (the boundary counted from the frame's bottom instead of its base)
CloseFromBottom(m0, a) ==
    LET m == SavePc(Fetch(m0))
    IN Leave(close_upvalues(m, Last(m.thread_stack), TopFrame(m).bottom + a))
\* OpCode::Close
Close(m0, a) ==
    LET m == SavePc(Fetch(m0))
    IN Leave(close_upvalues(m, Last(m.thread_stack), TopFrame(m).base + a))

\* open_upvalues.entry(index).or_insert_with(|| allocate_cell(Upvalue::Open(index)))
\* (a new cell at every capture)
EntryAlwaysInsert(m, t, index) ==
    [m EXCEPT !.upvalues = Append(@, OpenCell(t, index)),
              !.open_upvalues[t] =
                  [i \in DOMAIN @ \cup {index} |->
                      IF i = index THEN Len(m.upvalues) + 1 ELSE @[i]]]
EntryOrInsert(m, t, index) ==
    IF index \in DOMAIN m.open_upvalues[t]
    THEN m
    ELSE [m EXCEPT !.upvalues = Append(@, OpenCell(t, index)),
                   !.open_upvalues[t] =
                       [i \in DOMAIN @ \cup {index} |->
                           IF i = index THEN Len(m.upvalues) + 1 ELSE @[i]]]

\* the map over proto.upvalues: the VM after the cells were allocated and, in
\* bound, the cells collected so far
RECURSIVE BindUpvalues(_, _, _)
BindUpvalues(m, descs, bound) ==
    IF descs = <<>> THEN [m |-> m, up |-> bound]
    ELSE LET t == Last(m.thread_stack)
             d == Head(descs)
             index == TopFrame(m).base + d.index
             m1 == IF d.from = "Register" THEN EntryOrInsert(m, t, index) ELSE m
             cell == IF d.from = "Register" THEN m1.open_upvalues[t][index]
                     ELSE Closure0(m).up[d.index + 1]
         IN BindUpvalues(m1, Tail(descs), Append(bound, cell))

\* OpCode::Closure
Closure(m0, a, proto) ==
    LET m == SavePc(Fetch(m0))
        r == BindUpvalues(m, ProtoUpvalues(proto), <<>>)
    IN Leave(SetReg(r.m, a, LuaClosureV(proto, r.up)))

\* Vm::call_value(thread, callee, stack_range, nargs): the stack ends after the
\* B-1 arguments (or at the range's end when B = 0), then the frame is pushed
call_value(m, t, bottom, range_end, b) ==
    LET top == IF b > 0 THEN bottom + b ELSE range_end
    IN IF top <= bottom THEN Panic(m)
       ELSE push_frame([m EXCEPT !.stack[t] = Truncate(Resize(@, top), top)], t, bottom)

\* OpCode::TForCall: the pc is saved, the stack grown to the call block's
\* three slots, base+A .. base+A+4 copied to base+A+4 on, and the copy called
\* with two arguments
TForCall(m0, a) ==
    LET m == SavePc(Fetch(m0))
        t == Last(m.thread_stack)
        new_bottom == TopFrame(m).base + a + 4
        new_stack_len == new_bottom + 3
        grown == Resize(m.stack[t], new_stack_len)
    IN IF ~CopyOk(grown, TopFrame(m).base + a, new_bottom, new_bottom) THEN Panic(m)
       ELSE call_value(
                Leave([m EXCEPT !.stack[t] =
                          CopyWithin(grown, TopFrame(m).base + a, new_bottom, new_bottom)]),
                t, new_bottom, new_stack_len, 3)

\* OpCode::TForLoop
TForLoop(m0, a, bx) ==
    LET m == Fetch(m0)
        control == Reg(m, a + 4)
    IN IF control # Nil
       THEN IF bx > m.state.pc THEN Panic(m)
            ELSE [SetReg(m, a + 2, control) EXCEPT !.state.pc = @ - bx]
       ELSE m

\* OpCode::Call
Call(m0, a, b) ==
    LET m == SavePc(Fetch(m0))
        t == Last(m.thread_stack)
    IN call_value(Leave(m), t, TopFrame(m).base + a, m.state.saved_stack_top, b)

\* `if b > 0 { b - 1 } else { saved_stack_top - a - frame.base }` of TailCall
TailCallCount(m, a, b) ==
    IF b > 0 THEN b - 1 ELSE m.state.saved_stack_top - a - TopFrame(m).base

\* TailCall, lines 545-547: the K flag
TailCallClose(m, k) ==
    IF k THEN close_upvalues(m, Last(m.thread_stack), TopFrame(m).bottom) ELSE m

\* TailCall, lines 553-559: the callee and its arguments move down to
\* frame.bottom, the stack ends after them, the frame is popped
\* (the frame left on the frame stack)
TailCallMoveKeepsFrame(m, a, n) ==
    LET t == Last(m.thread_stack)
        frame == TopFrame(m)
        s == m.stack[t]
    IN IF ~CopyOk(s, frame.base + a, frame.base + a + n + 1, frame.bottom)
       THEN Panic(m)
       ELSE [m EXCEPT
               !.stack[t] = Truncate(CopyWithin(s, frame.base + a,
                                                frame.base + a + n + 1, frame.bottom),
                                     frame.bottom + n + 1)]
TailCallMove(m, a, n) ==
    LET t == Last(m.thread_stack)
        frame == TopFrame(m)
        s == m.stack[t]
    IN IF ~CopyOk(s, frame.base + a, frame.base + a + n + 1, frame.bottom)
       THEN Panic(m)
       ELSE [m EXCEPT
               !.stack[t] = Truncate(CopyWithin(s, frame.base + a,
                                                frame.base + a + n + 1, frame.bottom),
                                     frame.bottom + n + 1),
               !.frames[t] = Front(@)]

\* OpCode::TailCall
TailCall(m0, a, b, k) ==
    LET m == Fetch(m0)
        t == Last(m.thread_stack)
        frame == TopFrame(m)
        n == TailCallCount(m, a, b)
        m1 == TailCallClose(m, k)
        m2 == TailCallMove(m1, a, n)
    IN IF n < 0 \/ m1.panic THEN Panic(m1)
       ELSE IF m2.panic THEN m2
       ELSE call_value(Leave(m2), t, frame.bottom, frame.bottom + n + 1, b)

\* `if b > 0 { b - 1 } else { saved_stack_top - a - frame.base }` of Return
ReturnCount(m, a, b) ==
    IF b > 0 THEN b - 1 ELSE m.state.saved_stack_top - a - TopFrame(m).base

\* Return, lines 571-573: the K flag
ReturnClose(m, k) ==
    IF k THEN close_upvalues(m, Last(m.thread_stack), TopFrame(m).bottom) ELSE m

\* (the results moved, the stack left as long as it was)
ReturnMoveUncut(m, a, n) ==
    LET t == Last(m.thread_stack)
        frame == TopFrame(m)
        s == m.stack[t]
    IN IF ~CopyOk(s, frame.base + a, frame.base + a + n, frame.bottom)
       THEN Panic(m)
       ELSE [m EXCEPT
               !.stack[t] = CopyWithin(s, frame.base + a, frame.base + a + n,
                                       frame.bottom),
               !.frames[t] = Front(@)]
\* Return, lines 581-585
ReturnMove(m, a, n) ==
    LET t == Last(m.thread_stack)
        frame == TopFrame(m)
        s == m.stack[t]
    IN IF ~CopyOk(s, frame.base + a, frame.base + a + n, frame.bottom)
       THEN Panic(m)
       ELSE [m EXCEPT
               !.stack[t] = Truncate(CopyWithin(s, frame.base + a,
                                                frame.base + a + n, frame.bottom),
                                     frame.bottom + n),
               !.frames[t] = Front(@)]

\* (the results moved and the stack cut first, the upvalues closed after)
ReturnCloseLate(m0, a, b, k) ==
    LET m == Fetch(m0)
        t == Last(m.thread_stack)
        bottom == TopFrame(m).bottom
        n == ReturnCount(m, a, b)
        m1 == ReturnMove(m, a, n)
    IN IF n < 0 THEN Panic(m)
       ELSE IF m1.panic THEN m1
       ELSE Leave(IF k THEN close_upvalues(m1, t, bottom) ELSE m1)
\* OpCode::Return
Return(m0, a, b, k) ==
    LET m == Fetch(m0)
        n == ReturnCount(m, a, b)
        m1 == ReturnClose(m, k)
    IN IF n < 0 \/ m1.panic THEN Panic(m1)
       ELSE Leave(ReturnMove(m1, a, n))

\* (the stack cut at the frame's base)
Return0AtBase(frame) == frame.base
\* the length Return0 truncates the stack to
Return0Len(frame) == frame.bottom

\* OpCode::Return0
Return0(m0) ==
    LET m == Fetch(m0)
        t == Last(m.thread_stack)
    IN Leave([m EXCEPT !.stack[t] = Truncate(@, Return0Len(TopFrame(m))),
                       !.frames[t] = Front(@)])

\* OpCode::Return1
Return1(m0, a) ==
    LET m == Fetch(m0)
        t == Last(m.thread_stack)
        frame == TopFrame(m)
    IN Leave([m EXCEPT !.stack[t] = Truncate(Set(@, frame.bottom, Reg(m, a)),
                                             frame.bottom + 1),
                       !.frames[t] = Front(@)])

(* ------------------- native frames and continuations ------------------ *)
\* the native function `error`: Err(ErrorKind::Other)
NativeError(m) == Raise(m, "Other")

\* the native function `pcall`: its frame becomes a ProtectedCallContinuation
\* whose boundary is the slot of the function to call, and that function's
\* frame is pushed
NativePCall(m) ==
    LET t == Last(m.thread_stack)
        bottom == TopFrame(m).bottom
    IN IF Len(m.stack[t]) <= bottom + 1
       THEN Raise(m, "ArgumentTypeError")
       ELSE push_frame(
              [m EXCEPT !.frames[t] =
                  Append(Front(@), ProtectedCallContinuation(bottom, bottom + 1))],
              t, bottom + 1)

\* the native function `coroutine.create`: a new thread whose stack holds the
\* function; the thread value is the call's only result
NativeCreate(m, co) ==
    LET t == Last(m.thread_stack)
        bottom == TopFrame(m).bottom
        f == Get(m.stack[t], bottom + 1)
    IN IF Len(m.stack[t]) <= bottom + 1 \/ f.ty \notin {"LuaClosure", "NativeFunction"}
       THEN Raise(m, "ArgumentTypeError")
       ELSE [NewThread(m, co) EXCEPT
               !.stack[co] = <<f>>,
               !.stack[t] = Append(SubSeq(m.stack[t], 1, bottom), ThreadV(co)),
               !.frames[t] = Front(m.frames[t])]

\* the native function `coroutine.resume`: Resume pushes the target thread; the
\* resumer waits in a ResumeContinuation frame; a thread that has not started
\* gets the frame of its function
NativeResume(m) ==
    LET t == Last(m.thread_stack)
        bottom == TopFrame(m).bottom
        arg == Get(m.stack[t], bottom + 1)
        co == arg.v
    IN IF Len(m.stack[t]) <= bottom + 1 \/ arg.ty # "Thread"
       THEN Raise(m, "ArgumentTypeError")
       ELSE IF m.status[co].tag # "Resumable"
       THEN Raise(m, "Other")
       ELSE LET m1 == [m EXCEPT
                        !.frames[t] = Append(Front(@), ResumeContinuation(bottom)),
                        !.thread_stack = Append(@, co),
                        !.status[co] = [tag |-> "Unresumable", kind |-> ""]]
            IN IF m1.frames[co] = <<>> THEN push_frame(m1, co, 0) ELSE m1

NativeMetamethod(m, name) ==
    LET t == Last(m.thread_stack)
        bottom == TopFrame(m).bottom
        args == SubSeq(m.stack[t], bottom + 2, Len(m.stack[t]))
    IN [m EXCEPT !.stack[t] = Append(SubSeq(m.stack[t], 1, bottom),
                                     NativeMetamethodResult(name, args)),
                 !.frames[t] = Front(m.frames[t])]

NativeStep ==
    /\ TopIs("Native")
    /\ LET name == Get(stack[current_thread], Last(frames[current_thread]).bottom).name
       IN \/ name = "error" /\ Finish(NativeError(Turn(M)), Event("error", 0, 0, FALSE))
          \/ /\ name \in MetamethodNames
             /\ Finish(NativeMetamethod(Turn(M), name), Event("metamethod", 0, 0, FALSE))
          \/ name = "pcall" /\ Finish(NativePCall(Turn(M)), Event("pcall", 0, 0, FALSE))
          \/ /\ name = "create"
             /\ \E co \in ThreadIds :
                  /\ status[co].tag = "Unallocated"
                  /\ Finish(NativeCreate(Turn(M), co), Event("create", 0, 0, FALSE))
          \/ name = "resume" /\ Finish(NativeResume(Turn(M)), Event("resume", 0, 0, FALSE))

\* a continuation frame on top of the running thread is run: it leaves
\* (true, results..) or (false, error) from its bottom slot on and is popped
ContinuationResult(m) ==
    LET t == Last(m.thread_stack)
        frame == TopFrame(m)
        s == m.stack[t]
    IN IF frame.args.tag = "Err"
       THEN [m EXCEPT !.stack[t] = SubSeq(s, 1, frame.bottom)
                                     \o <<BoolV(FALSE), ErrV(frame.args.kind)>>,
                      !.frames[t] = Front(@)]
       ELSE [m EXCEPT !.stack[t] = Set(Resize(s, frame.bottom + 1), frame.bottom, BoolV(TRUE)),
                      !.frames[t] = Front(@)]

ContinuationStep ==
    /\ \/ TopIs("ProtectedCallContinuation")
       \/ TopIs("ResumeContinuation") /\ Last(frames[current_thread]).args.tag # "None"
    /\ Finish(ContinuationResult(Turn(M)), Event("Continuation", 0, 0, FALSE))

\* the running thread has no frame left: it is popped and can no longer be
\* resumed; its values go, as Ok, to the resumer's continuation
ThreadReturn(m) ==
    LET t == Last(m.thread_stack)
        m1 == [m EXCEPT !.thread_stack = Front(@),
                        !.status[t] = [tag |-> "Unresumable", kind |-> ""],
                        !.stack[t] = <<>>]
    IN IF m1.thread_stack = <<>> THEN m1
       ELSE LET r == Last(m1.thread_stack)
            IN [m1 EXCEPT !.frames[r][Len(m1.frames[r])].args = OkArgs]

ThreadFinish ==
    /\ Running
    /\ AtTurn
    /\ frames[current_thread] = <<>>
    /\ Finish(ThreadReturn(Turn(M)), Event("ThreadFinish", 0, 0, FALSE))

(* --------------------------- the interpreter -------------------------- *)
Live == Running /\ state.active
\* let insn = closure.proto.code[state.pc]
CodeAt == Code(Closure0(M).name, state.pc, steps)
\* the model's bound on frames holds back the open prototypes only
MayPush ==
    \/ Closure0(M).name \in ScriptedProtos
    \/ Len(frames[current_thread]) < MaxFrames

OpMove ==
    /\ Live
    /\ \E i \in CodeAt, debt \in BOOLEAN :
         i.op = "Move" /\ Finish(EndOfInsn(Move(M, i.a, i.b), debt), InsnEvent(i))

OpLoadI ==
    /\ Live
    /\ \E i \in CodeAt, debt \in BOOLEAN :
         i.op = "LoadI" /\ Finish(EndOfInsn(LoadI(M, i.a, i.b), debt), InsnEvent(i))

OpGetUpval ==
    /\ Live
    /\ \E i \in CodeAt, debt \in BOOLEAN :
         i.op = "GetUpval" /\ Finish(EndOfInsn(GetUpval(M, i.a, i.b), debt), InsnEvent(i))

OpSetUpval ==
    /\ Live
    /\ \E i \in CodeAt, debt \in BOOLEAN :
         i.op = "SetUpval" /\ Finish(EndOfInsn(SetUpval(M, i.a, i.b), debt), InsnEvent(i))

OpGetTabUp ==
    /\ Live
    /\ \E i \in CodeAt, debt \in BOOLEAN :
         i.op = "GetTabUp" /\ Finish(GetTabUp(M, i.a, i.b, i.key, debt), InsnEvent(i))

OpNewTable ==
    /\ Live
    /\ \E i \in CodeAt, debt \in BOOLEAN, pending \in BOOLEAN :
         /\ i.op = "NewTable"
         /\ Finish(EndOfInsn(NewTable(M, i.a, pending), debt), InsnEvent(i))

OpLoadK ==
    /\ Live
    /\ \E i \in CodeAt, debt \in BOOLEAN :
         /\ i.op = "LoadK"
         /\ Finish(EndOfInsn(LoadK(M, i.a, IF i.key # "" THEN StrV(i.key) ELSE IntV(i.b)),
                             debt), InsnEvent(i))

OpGetTable ==
    /\ Live
    /\ \E i \in CodeAt, debt \in BOOLEAN :
         i.op = "GetTable" /\ Finish(GetTable(M, i.a, i.b, i.c, debt), InsnEvent(i))

OpGetI ==
    /\ Live
    /\ \E i \in CodeAt, debt \in BOOLEAN :
         i.op = "GetI" /\ Finish(GetI(M, i.a, i.b, i.c, debt), InsnEvent(i))

OpGetField ==
    /\ Live
    /\ \E i \in CodeAt, debt \in BOOLEAN :
         i.op = "GetField" /\ Finish(GetField(M, i.a, i.b, i.key, debt), InsnEvent(i))

OpSelf ==
    /\ Live
    /\ \E i \in CodeAt, debt \in BOOLEAN :
         i.op = "Self_" /\ Finish(Self_(M, i.a, i.b, i.key, debt), InsnEvent(i))

OpAdd ==
    /\ Live
    /\ \E i \in CodeAt, debt \in BOOLEAN :
         i.op = "Add" /\ Finish(EndOfInsn(Add(M, i.a, i.b, i.c), debt), InsnEvent(i))

OpAddI ==
    /\ Live
    /\ \E i \in CodeAt, debt \in BOOLEAN :
         i.op = "AddI" /\ Finish(EndOfInsn(AddImm(M, i.a, i.b, i.c), debt), InsnEvent(i))

OpAddK ==
    /\ Live
    /\ \E i \in CodeAt, debt \in BOOLEAN :
         i.op = "AddK" /\ Finish(EndOfInsn(AddK(M, i.a, i.b, i.c), debt), InsnEvent(i))

OpMmBin ==
    /\ Live
    /\ \E i \in CodeAt :
         i.op = "MmBin" /\ Finish(MmBin(M, i.a, i.b, i.key), InsnEvent(i))

OpMmBinI ==
    /\ Live
    /\ \E i \in CodeAt : i.op = "MmBinI" /\ Finish(MmBinTodo(M), InsnEvent(i))

OpMmBinK ==
    /\ Live
    /\ \E i \in CodeAt : i.op = "MmBinK" /\ Finish(MmBinTodo(M), InsnEvent(i))

OpTForCall ==
    /\ Live
    /\ \E i \in CodeAt : i.op = "TForCall" /\ Finish(TForCall(M, i.a), InsnEvent(i))

OpTForLoop ==
    /\ Live
    /\ \E i \in CodeAt, debt \in BOOLEAN :
         i.op = "TForLoop" /\ Finish(EndOfInsn(TForLoop(M, i.a, i.b), debt), InsnEvent(i))

OpForPrep ==
    /\ Live
    /\ \E i \in CodeAt, debt \in BOOLEAN, checks \in BOOLEAN :
         /\ i.op = "ForPrep"
         /\ Finish(EndOfInsn(ForPrep(M, i.a, i.b, checks), debt), InsnEvent(i))

OpForLoop ==
    /\ Live
    /\ \E i \in CodeAt, debt \in BOOLEAN, checks \in BOOLEAN :
         /\ i.op = "ForLoop"
         /\ Finish(EndOfInsn(ForLoop(M, i.a, i.b, checks), debt), InsnEvent(i))

OpVarArgPrep ==
    /\ Live
    /\ \E i \in CodeAt, debt \in BOOLEAN, checks \in BOOLEAN :
         /\ i.op = "VarArgPrep"
         /\ Finish(VarArgPrep(M, i.a, checks, debt), InsnEvent(i))

OpVarArg ==
    /\ Live
    /\ \E i \in CodeAt, debt \in BOOLEAN :
         i.op = "VarArg" /\ Finish(VarArg(M, i.a, i.c, debt), InsnEvent(i))

OpSetList ==
    /\ Live
    /\ \E i \in CodeAt, checks \in BOOLEAN, debt \in BOOLEAN :
         /\ i.op = "SetList"
         /\ \E x \in IF i.k THEN Code(Closure0(M).name, state.pc + 1, steps) ELSE {i} :
              Finish(SetList(M, i.a, i.b, i.c, i.k, x.a, checks, debt), InsnEvent(i))

OpUnm ==
    /\ Live
    /\ \E i \in CodeAt, checks \in BOOLEAN, debt \in BOOLEAN :
         /\ i.op = "Unm"
         /\ Finish(EndOfInsn(Unm(M, i.a, i.b, checks), debt), InsnEvent(i))

OpTbc ==
    /\ Live
    /\ \E i \in CodeAt : i.op = "Tbc" /\ Finish(Tbc(M, i.a), InsnEvent(i))

OpClose ==
    /\ Live
    /\ \E i \in CodeAt : i.op = "Close" /\ Finish(Close(M, i.a), InsnEvent(i))

OpClosure ==
    /\ Live
    /\ \E i \in CodeAt :
         /\ i.op = "Closure"
         /\ \/ i.proto \in ScriptedProtos
            \/ Len(Closure(M, i.a, i.proto).upvalues) <= MaxCells
         /\ Finish(Closure(M, i.a, i.proto), InsnEvent(i))

OpCall ==
    /\ Live /\ MayPush
    /\ \E i \in CodeAt : i.op = "Call" /\ Finish(Call(M, i.a, i.b), InsnEvent(i))

OpTailCall ==
    /\ Live
    /\ \E i \in CodeAt : i.op = "TailCall" /\ Finish(TailCall(M, i.a, i.b, i.k), InsnEvent(i))

OpReturn ==
    /\ Live
    /\ \E i \in CodeAt : i.op = "Return" /\ Finish(Return(M, i.a, i.b, i.k), InsnEvent(i))

OpReturn0 ==
    /\ Live
    /\ \E i \in CodeAt : i.op = "Return0" /\ Finish(Return0(M), InsnEvent(i))

OpReturn1 ==
    /\ Live
    /\ \E i \in CodeAt : i.op = "Return1" /\ Finish(Return1(M, i.a), InsnEvent(i))

Next ==
    \/ Execute
    \/ EnterFrame
    \/ OpMove
    \/ OpLoadI
    \/ OpGetUpval
    \/ OpSetUpval
    \/ OpGetTabUp
    \/ OpNewTable
    \/ OpLoadK
    \/ OpGetTable
    \/ OpGetI
    \/ OpGetField
    \/ OpSelf
    \/ OpAdd
    \/ OpAddI
    \/ OpAddK
    \/ OpMmBin
    \/ OpMmBinI
    \/ OpMmBinK
    \/ OpForPrep
    \/ OpForLoop
    \/ OpTForCall
    \/ OpTForLoop
    \/ OpVarArgPrep
    \/ OpVarArg
    \/ OpSetList
    \/ OpUnm
    \/ OpTbc
    \/ OpClose
    \/ OpClosure
    \/ OpCall
    \/ OpTailCall
    \/ OpReturn
    \/ OpReturn0
    \/ OpReturn1
    \/ NativeStep
    \/ ContinuationStep
    \/ ThreadFinish
    \/ StepGc
    \/ Exit

Spec == Init /\ [][Next]_vars

(* ============================== the lexer ============================= *)
\* bytes, by their value
LF == 10
CR == 13
TAB == 9
VT == 11
FF == 12
SPACE == 32
QUOTE == 34
APOSTROPHE == 39
MINUS == 45
DOT == 46
SEMICOLON == 59
EQUALS == 61
LBRACKET == 91
BACKSLASH == 92
RBRACKET == 93
LBRACE == 123
RBRACE == 125
\* Option::None for a byte
None == -1

\* is_newline
Newlines == {LF, CR}
\* the arm b' ' | 0xc | b'\t' | 0xb of consume_token
Blanks == {SPACE, FF, TAB, VT}
\* u8::is_ascii_digit, u8::is_ascii_hexdigit
Digits == 48..57
HexDigits == Digits \cup (65..70) \cup (97..102)
\* is_lua_alphabetic, is_lua_alphanumeric
Alphabetic == (65..90) \cup (97..122) \cup {95}
Alphanumeric == Alphabetic \cup Digits

\* LexerInner::peek: a byte is taken from the reader if none is held
InnerPeek(L) ==
    IF L.peeked = <<>> /\ L.pos < Len(source)
    THEN [L EXCEPT !.peeked = <<source[L.pos + 1]>>, !.pos = @ + 1]
    ELSE L
\* what LexerInner::peek returns
PeekedByte(L) == LET l == InnerPeek(L) IN IF l.peeked = <<>> THEN None ELSE l.peeked[1]

\* LexerInner::peek2: one more byte is taken if fewer than two are held
InnerPeek2(L) ==
    IF Len(L.peeked) < 2 /\ L.pos < Len(source)
    THEN [L EXCEPT !.peeked = Append(@, source[L.pos + 1]), !.pos = @ + 1]
    ELSE L
Peeked2Byte(L) == LET l == InnerPeek2(L) IN IF Len(l.peeked) < 2 THEN None ELSE l.peeked[2]

\* LexerInner::consume
InnerConsume(L) ==
    IF L.peeked # <<>> THEN [L EXCEPT !.peeked = Tail(@)]
    ELSE IF L.pos < Len(source) THEN [L EXCEPT !.pos = @ + 1]
    ELSE L
\* LexerInner::consume_if(func), func given as the set of bytes it accepts
ConsumeIf(L, accept) ==
    IF PeekedByte(L) \in accept THEN InnerConsume(InnerPeek(L)) ELSE InnerPeek(L)
\* LexerInner::consume_while: the lexer after the run, and the run
RECURSIVE ConsumeWhile(_, _)
ConsumeWhile(L, accept) ==
    IF PeekedByte(L) \in accept THEN ConsumeWhile(ConsumeIf(L, accept), accept) ELSE InnerPeek(L)
RECURSIVE Run(_, _)
Run(L, accept) ==
    IF PeekedByte(L) \in accept
    THEN <<PeekedByte(L)>> \o Run(ConsumeIf(L, accept), accept)
    ELSE <<>>

\* the number of bytes of the source the lexer has consumed
Consumed(L) == L.pos - Len(L.peeked)

\* (a newline byte taken alone, never with its partner)
ConsumeNewlineSingle(L) == [InnerConsume(InnerPeek(L)) EXCEPT !.lineno = @ + 1]
\* LexerInner::consume_newline: the newline byte, then the other newline byte
\* if it follows; lineno grows by one
consume_newline(L) ==
    LET ch == PeekedByte(L)
    IN [ConsumeIf(InnerConsume(InnerPeek(L)), Newlines \ {ch}) EXCEPT !.lineno = @ + 1]

\* what the consume_* functions return: the lexer after the call and
\* Result<Option<Token>, LexerError>; at is where the token began in the source
Token(kind, text, at) == [kind |-> kind, text |-> text, at |-> at]
LexOk(L, tok) == [L |-> L, tok |-> tok, err |-> ""]
LexErr(L, err) == [L |-> L, tok |-> NoToken, err |-> err]

\* closing_level '=' signs
Equals(n) == [i \in 1..n |-> EQUALS]

\* LexerInner::consume_long_string after the leading newline: the loop of
\* lines 452-481 and, on a ']', the loop of lines 456-470
RECURSIVE LongStringBody(_, _, _, _), LongStringClose(_, _, _, _)
LongStringBody(L, opening_level, buf, at) ==
    LET ch == PeekedByte(L)
    IN IF ch = None THEN LexErr(InnerPeek(L), "UnfinishedToken")
       ELSE IF ch = RBRACKET
       THEN LongStringClose(InnerConsume(InnerPeek(L)), opening_level, buf, at)
       ELSE IF ch \in Newlines
       THEN LongStringBody(consume_newline(L), opening_level, Append(buf, LF), at)
       ELSE LongStringBody(InnerConsume(InnerPeek(L)), opening_level, Append(buf, ch), at)
\* (the second ']' of a closer of another level not taken as the first ']' of
\* the next closer)
LongStringCloseOnce(L, opening_level, buf, at) ==
    LET closing_level == Len(Run(L, {EQUALS}))
        L1 == ConsumeWhile(L, {EQUALS})
        has_second_bracket == PeekedByte(L1) = RBRACKET
        L2 == ConsumeIf(L1, {RBRACKET})
        buf2 == Append(buf, RBRACKET) \o Equals(closing_level)
    IN IF has_second_bracket /\ closing_level = opening_level
       THEN LexOk(L2, Token("String", buf, at))
       ELSE IF has_second_bracket
       THEN LongStringBody(L2, opening_level, Append(buf2, RBRACKET), at)
       ELSE LongStringBody(L2, opening_level, buf2, at)
LongStringClose(L, opening_level, buf, at) ==
    LET closing_level == Len(Run(L, {EQUALS}))
        L1 == ConsumeWhile(L, {EQUALS})
        has_second_bracket == PeekedByte(L1) = RBRACKET
        L2 == ConsumeIf(L1, {RBRACKET})
        buf2 == Append(buf, RBRACKET) \o Equals(closing_level)
    IN IF has_second_bracket /\ closing_level = opening_level
       THEN LexOk(L2, Token("String", buf, at))
       ELSE IF has_second_bracket
       THEN LongStringClose(L2, opening_level, buf2, at)
       ELSE LongStringBody(L2, opening_level, buf2, at)

\* LexerInner::consume_long_string
consume_long_string(L, opening_level, at) ==
    LongStringBody(IF PeekedByte(L) \in Newlines THEN consume_newline(L) ELSE InnerPeek(L),
                   opening_level, <<>>, at)

\* LexerInner::consume_long_comment from line 496 on: the lexer after the
\* comment, with closed TRUE, or the error
RECURSIVE LongCommentBody(_, _), LongCommentClose(_, _)
LongCommentBody(L, opening_level) ==
    LET ch == PeekedByte(L)
    IN IF ch = None THEN [L |-> InnerPeek(L), closed |-> FALSE, err |-> "UnfinishedToken"]
       ELSE IF ch = RBRACKET
       THEN LongCommentClose(InnerConsume(InnerPeek(L)), opening_level)
       ELSE IF ch \in Newlines
       THEN LongCommentBody(consume_newline(L), opening_level)
       ELSE LongCommentBody(InnerConsume(InnerPeek(L)), opening_level)
LongCommentClose(L, opening_level) ==
    LET closing_level == Len(Run(L, {EQUALS}))
        L1 == ConsumeWhile(L, {EQUALS})
        L2 == ConsumeIf(L1, {RBRACKET})
    IN IF PeekedByte(L1) # RBRACKET THEN LongCommentBody(L2, opening_level)
       ELSE IF closing_level = opening_level
       THEN [L |-> L2, closed |-> TRUE, err |-> ""]
       ELSE LongCommentClose(L2, opening_level)

\* LexerInner::consume_long_comment: closed FALSE is Ok(false), no long
\* comment began here
consume_long_comment(L) ==
    LET L1 == ConsumeIf(L, {LBRACKET})
        opening_level == Len(Run(L1, {EQUALS}))
        L2 == ConsumeWhile(L1, {EQUALS})
        L3 == ConsumeIf(L2, {LBRACKET})
    IN IF PeekedByte(L) # LBRACKET THEN [L |-> L1, closed |-> FALSE, err |-> ""]
       ELSE IF PeekedByte(L2) # LBRACKET THEN [L |-> L3, closed |-> FALSE, err |-> ""]
       ELSE LongCommentBody(L3, opening_level)

\* string::parse_hex_digit
parse_hex_digit(ch) ==
    IF ch \in Digits THEN ch - 48 ELSE IF ch \in 65..70 THEN ch - 55 ELSE ch - 87

\* what consume_*_escape return: the lexer after the escape, the bytes the
\* escape stands for and the error, if any
EscapeOk(L, bytes) == [L |-> L, bytes |-> bytes, err |-> ""]
EscapeErr(L, err) == [L |-> L, bytes |-> <<>>, err |-> err]

\* the decimal value of a run of digits
RECURSIVE DecimalValue(_)
DecimalValue(ds) ==
    IF ds = <<>> THEN 0 ELSE 10 * DecimalValue(Front(ds)) + (Last(ds) - 48)
\* a run of at most n bytes of accept, and the lexer after it
RECURSIVE RunUpTo(_, _, _)
RunUpTo(L, accept, n) ==
    IF n > 0 /\ PeekedByte(L) \in accept
    THEN <<PeekedByte(L)>> \o RunUpTo(ConsumeIf(L, accept), accept, n - 1)
    ELSE <<>>
RECURSIVE ConsumeUpTo(_, _, _)
ConsumeUpTo(L, accept, n) ==
    IF n > 0 /\ PeekedByte(L) \in accept
    THEN ConsumeUpTo(ConsumeIf(L, accept), accept, n - 1)
    ELSE IF n > 0 THEN InnerPeek(L) ELSE L

\* `for _ in 0..3`
DecimalEscapeDigits == 3
\* u8::MAX
MaxByte == 255
\* (every value taken for a byte)
DecimalEscapeFitsAlways(r) == TRUE
\* r.try_into() is Ok for a u8
DecimalEscapeFits(r) == r <= MaxByte

\* LexerInner::consume_decimal_escape
consume_decimal_escape(L) ==
    LET r == DecimalValue(RunUpTo(L, Digits, DecimalEscapeDigits))
        L1 == ConsumeUpTo(L, Digits, DecimalEscapeDigits)
    IN IF DecimalEscapeFits(r) THEN EscapeOk(L1, <<r>>)
       ELSE EscapeErr(L1, "DecimalEscapeTooLarge")

\* LexerInner::consume_hex_escape
consume_hex_escape(L) ==
    LET ds == RunUpTo(L, HexDigits, 2)
        L1 == ConsumeUpTo(L, HexDigits, 2)
    IN IF Len(ds) = 2
       THEN EscapeOk(L1, <<parse_hex_digit(ds[1]) * 16 + parse_hex_digit(ds[2])>>)
       ELSE EscapeErr(L1, "HexadecimalDigitExpected")

\* string::MAX_UTF8
MAX_UTF8 == 2147483647

\* string::encode_utf8: the bytes of the code point, up to six of them; the
\* continuation bytes are gathered last to first
RECURSIVE Utf8Tail(_, _, _)
Utf8Tail(x, mfb, acc) ==
    IF x > mfb
    THEN Utf8Tail(x \div 64, mfb \div 2, <<128 + (x % 64)>> \o acc)
    ELSE <<254 - 2 * mfb + x>> \o acc
encode_utf8(code) ==
    IF code < 128 THEN <<code>>
    ELSE Utf8Tail(code \div 64, 31, <<128 + (code % 64)>>)

\* the loop of lines 419-424: code is a u32; the digit is consumed, then the
\* bound is tested, then the digit is added
RECURSIVE Utf8Digits(_, _)
Utf8Digits(L, code) ==
    LET ch == PeekedByte(L)
        L1 == ConsumeIf(L, HexDigits)
    IN IF ch \notin HexDigits THEN [L |-> L1, code |-> code, err |-> ""]
       ELSE IF code > MAX_UTF8 \div 16 THEN [L |-> L1, code |-> code, err |-> "Utf8ValueTooLarge"]
       ELSE Utf8Digits(L1, code * 16 + parse_hex_digit(ch))

\* LexerInner::consume_utf8_escape
consume_utf8_escape(L) ==
    LET L1 == ConsumeIf(L, {LBRACE})
        first == PeekedByte(L1)
        L2 == ConsumeIf(L1, HexDigits)
        r == Utf8Digits(L2, parse_hex_digit(first))
        L3 == ConsumeIf(r.L, {RBRACE})
    IN IF PeekedByte(L) # LBRACE THEN EscapeErr(L1, "MissingEscapeCharacter")
       ELSE IF first \notin HexDigits THEN EscapeErr(L2, "HexadecimalDigitExpected")
       ELSE IF r.err # "" THEN EscapeErr(r.L, r.err)
       ELSE IF PeekedByte(r.L) # RBRACE THEN EscapeErr(L3, "MissingEscapeCharacter")
       ELSE EscapeOk(L3, encode_utf8(r.code))

\* LexerInner::consume_zap
RECURSIVE consume_zap(_)
consume_zap(L) ==
    LET ch == PeekedByte(L)
    IN IF ch \in Newlines THEN consume_zap(consume_newline(L))
       ELSE IF ch \in Blanks THEN consume_zap(InnerConsume(InnerPeek(L)))
       ELSE InnerPeek(L)

\* the escapes that stand for one byte: \a \b \f \n \r \t \v, and \\ \" \'
SimpleEscapes == {97, 98, 102, 110, 114, 116, 118, BACKSLASH, QUOTE, APOSTROPHE}
SimpleEscape(ch) ==
    CASE ch = 97 -> 7 [] ch = 98 -> 8 [] ch = 102 -> FF [] ch = 110 -> LF
      [] ch = 114 -> CR [] ch = 116 -> TAB [] ch = 118 -> VT [] OTHER -> ch

\* LexerInner::consume_string after the delimiter: the loop of lines 315-379
RECURSIVE StringBody(_, _, _, _)
StringBody(L, delimiter, string, at) ==
    LET ch == PeekedByte(L)
        L1 == InnerConsume(InnerPeek(L))
        esc == PeekedByte(L1)
        L2 == InnerConsume(InnerPeek(L1))
        r == IF esc = 120 THEN consume_hex_escape(L2)
             ELSE IF esc = 117 THEN consume_utf8_escape(L2)
             ELSE consume_decimal_escape(L1)
    IN IF ch = None \/ ch \in Newlines THEN LexErr(L1, "UnfinishedToken")
       ELSE IF ch = delimiter THEN LexOk(L1, Token("String", string, at))
       ELSE IF ch # BACKSLASH THEN StringBody(L1, delimiter, Append(string, ch), at)
       ELSE IF esc = None THEN LexErr(InnerPeek(L1), "UnfinishedToken")
       ELSE IF esc \in SimpleEscapes
       THEN StringBody(L2, delimiter, Append(string, SimpleEscape(esc)), at)
       ELSE IF esc \in Newlines
       THEN StringBody(consume_newline(L1), delimiter, Append(string, LF), at)
       ELSE IF esc = 122 THEN StringBody(consume_zap(L2), delimiter, string, at)
       ELSE IF esc \in {120, 117} \cup Digits
       THEN IF r.err # "" THEN LexErr(r.L, r.err)
            ELSE StringBody(r.L, delimiter, string \o r.bytes, at)
       ELSE LexErr(InnerPeek(L1), "InvalidEscapeSequence")

\* LexerInner::consume_string
consume_string(L, at) == StringBody(InnerConsume(InnerPeek(L)), PeekedByte(L), <<>>, at)

\* LexerInner::consume_numeral, lines 264-292: the bytes of the numeral; what
\* they parse to is not modelled
RECURSIVE NumeralBody(_, _, _)
NumeralBody(L, exp_ch, bytes) ==
    LET ch == PeekedByte(L)
        L1 == InnerConsume(InnerPeek(L))
        sign == PeekedByte(L1)
    IN IF ch \in exp_ch
       THEN IF sign \in {MINUS, 43}
            THEN NumeralBody(InnerConsume(InnerPeek(L1)), exp_ch, bytes \o <<ch, sign>>)
            ELSE NumeralBody(InnerPeek(L1), exp_ch, Append(bytes, ch))
       ELSE IF ch \in HexDigits \cup {DOT} THEN NumeralBody(L1, exp_ch, Append(bytes, ch))
       ELSE IF ch \in Alphabetic THEN [L |-> L1, bytes |-> Append(bytes, ch)]
       ELSE [L |-> InnerPeek(L), bytes |-> bytes]
consume_numeral(L, at) ==
    LET first_ch == PeekedByte(L)
        L1 == InnerConsume(InnerPeek(L))
        is_hex == first_ch = 48 /\ PeekedByte(L1) \in {88, 120}
        r == IF is_hex THEN NumeralBody(InnerConsume(InnerPeek(L1)), {80, 112}, <<>>)
             ELSE NumeralBody(InnerPeek(L1), {69, 101}, <<first_ch>>)
    IN LexOk(r.L, Token("Numeral", r.bytes, at))

\* the tokens of one or two bytes: the token for the byte alone, the bytes
\* that may follow it and the token for the pair
Punctuation(ch, next) ==
    CASE ch = EQUALS -> IF next = EQUALS THEN "Eq" ELSE "Assign"
      [] ch = 60 -> IF next = EQUALS THEN "Le" ELSE IF next = 60 THEN "Shl" ELSE "Lt"
      [] ch = 62 -> IF next = EQUALS THEN "Ge" ELSE IF next = 62 THEN "Shr" ELSE "Gt"
      [] ch = 47 -> IF next = 47 THEN "IDiv" ELSE "Div"
      [] ch = 126 -> IF next = EQUALS THEN "Ne" ELSE "Tilde"
      [] ch = 58 -> IF next = 58 THEN "DoubleColon" ELSE "Colon"
      [] ch = 35 -> "Len" [] ch = 37 -> "Mod" [] ch = 38 -> "BAnd"
      [] ch = 40 -> "LeftParen" [] ch = 41 -> "RightParen" [] ch = 42 -> "Mul"
      [] ch = 43 -> "Add" [] ch = 44 -> "Comma" [] ch = SEMICOLON -> "Semicolon"
      [] ch = RBRACKET -> "RightBracket" [] ch = 94 -> "Pow"
      [] ch = LBRACE -> "LeftCurlyBracket" [] ch = 124 -> "BOr"
      [] ch = RBRACE -> "RightCurlyBracket"
      [] OTHER -> "UnknownToken"
\* whether the token takes the second byte too
TakesTwo(ch, next) ==
    Punctuation(ch, next) \in {"Eq", "Le", "Shl", "Ge", "Shr", "IDiv", "Ne", "DoubleColon"}

\* LexerInner::consume_token
RECURSIVE consume_token(_)
consume_token(L) ==
    LET ch == PeekedByte(L)
        L0 == InnerPeek(L)
        at == Consumed(L0)
        L1 == InnerConsume(L0)
        next == PeekedByte(L1)
        L2 == InnerConsume(InnerPeek(L1))
        comment == consume_long_comment(L2)
        opening_level == Len(Run(L1, {EQUALS}))
        opened == ConsumeWhile(L1, {EQUALS})
    IN IF ch = None THEN LexOk(L0, NoToken)
       ELSE IF ch \in Newlines THEN consume_token(consume_newline(L))
       ELSE IF ch \in Blanks THEN consume_token(L1)
       ELSE IF ch = MINUS
       THEN IF next # MINUS THEN LexOk(InnerPeek(L1), Token("Minus", <<>>, at))
            ELSE IF comment.err # "" THEN LexErr(comment.L, comment.err)
            ELSE IF comment.closed THEN consume_token(comment.L)
            ELSE consume_token(ConsumeWhile(comment.L, (0..255) \ Newlines))
       ELSE IF ch = LBRACKET
       THEN IF PeekedByte(opened) = LBRACKET
            THEN consume_long_string(InnerConsume(opened), opening_level, at)
            ELSE IF opening_level = 0 THEN LexOk(opened, Token("LeftBracket", <<>>, at))
            ELSE LexErr(opened, "InvalidLongStringDelimiter")
       ELSE IF ch \in {QUOTE, APOSTROPHE} THEN consume_string(L0, at)
       ELSE IF ch = DOT
       THEN IF Peeked2Byte(L0) = DOT
            THEN IF PeekedByte(L2) = DOT
                 THEN LexOk(InnerConsume(InnerPeek(L2)), Token("Dots", <<>>, at))
                 ELSE LexOk(InnerPeek(L2), Token("Concat", <<>>, at))
            ELSE IF Peeked2Byte(L0) \in Digits THEN consume_numeral(InnerPeek2(L0), at)
            ELSE LexOk(InnerConsume(InnerPeek2(L0)), Token("Dot", <<>>, at))
       ELSE IF ch \in Digits THEN consume_numeral(L0, at)
       ELSE IF ch \in Alphabetic
       THEN LexOk(ConsumeWhile(L0, Alphanumeric), Token("Name", Run(L0, Alphanumeric), at))
       ELSE IF Punctuation(ch, next) = "UnknownToken" THEN LexErr(L1, "UnknownToken")
       ELSE IF TakesTwo(ch, next) THEN LexOk(L2, Token(Punctuation(ch, next), <<>>, at))
       ELSE IF ch \in {EQUALS, 60, 62, 47, 126, 58}
       THEN LexOk(InnerPeek(L1), Token(Punctuation(ch, next), <<>>, at))
       ELSE LexOk(L1, Token(Punctuation(ch, next), <<>>, at))

(* ------------------------- Lexer: the token API ----------------------- *)
\* what a call on the Lexer returned, for the history: lineno is what
\* Lexer::lineno() returns after the call, taken counts the tokens consume
\* has handed out
Handed(op, tok, err, L, taken) ==
    [op |-> op, tok |-> tok, err |-> err, lineno |-> L.lineno, taken |-> taken]

\* a parser stops at the first LexerError: no call follows one
LexerUsable == handed.err = ""

\* (the next token lexed although tokens are held in the lookahead)
ConsumePastLookahead(r) ==
    /\ peeked' = peeked
    /\ inner' = r.L
    /\ handed' = Handed("consume", r.tok, r.err, r.L,
                        IF r.tok # NoToken THEN handed.taken + 1 ELSE handed.taken)
\* Lexer::consume, r being what the inner lexer would return
Consume(r) ==
    IF peeked # <<>>
    THEN /\ peeked' = Tail(peeked)
         /\ inner' = inner
         /\ handed' = Handed("consume", Head(peeked), "", inner, handed.taken + 1)
    ELSE /\ peeked' = peeked
         /\ inner' = r.L
         /\ handed' = Handed("consume", r.tok, r.err, r.L,
                             IF r.tok # NoToken THEN handed.taken + 1
                             ELSE handed.taken)

LexConsume ==
    /\ LexerUsable
    /\ Consume(consume_token(inner))
    /\ UNCHANGED <<source, math, vmvars>>

\* Lexer::peek
Peek(r) ==
    IF peeked = <<>>
    THEN /\ peeked' = IF r.err = "" /\ r.tok # NoToken THEN <<r.tok>> ELSE peeked
         /\ inner' = r.L
         /\ handed' = Handed("peek", r.tok, r.err, r.L, handed.taken)
    ELSE /\ UNCHANGED <<peeked, inner>>
         /\ handed' = Handed("peek", Head(peeked), "", inner, handed.taken)

LexPeek ==
    /\ LexerUsable
    /\ Peek(consume_token(inner))
    /\ UNCHANGED <<source, math, vmvars>>

\* lines 91-95 of Lexer::peek2: one token is lexed if fewer than two are held
Peek2Held(r) ==
    IF Len(peeked) < 2 /\ r.err = "" /\ r.tok # NoToken
    THEN Append(peeked, r.tok)
    ELSE peeked

\* Lexer::peek2: Ok(self.peeked.get(1))
Peek2(r, held) ==
    IF Len(peeked) < 2
    THEN /\ peeked' = held
         /\ inner' = r.L
         /\ handed' = Handed("peek2",
                             IF r.err = "" /\ Len(held) >= 2 THEN held[2] ELSE NoToken,
                             r.err, r.L, handed.taken)
    ELSE /\ UNCHANGED <<peeked, inner>>
         /\ handed' = Handed("peek2", peeked[2], "", inner, handed.taken)

LexPeek2 ==
    /\ LexerUsable
    /\ Peek2(consume_token(inner), Peek2Held(consume_token(inner)))
    /\ UNCHANGED <<source, math, vmvars>>

\* Lexer::consume_if(func): the token peek shows is consumed when func
\* accepts it; accept is what func returns for that token
LexerConsumeIf(r, accept) ==
    IF peeked = <<>>
    THEN /\ peeked' = IF r.err = "" /\ r.tok # NoToken /\ ~accept THEN <<r.tok>>
                       ELSE peeked
         /\ inner' = r.L
         /\ handed' = IF r.err = "" /\ r.tok # NoToken /\ accept
                       THEN Handed("consume_if", r.tok, "", r.L, handed.taken + 1)
                       ELSE Handed("consume_if", NoToken, r.err, r.L, handed.taken)
    ELSE /\ peeked' = IF accept THEN Tail(peeked) ELSE peeked
         /\ inner' = inner
         /\ handed' = IF accept
                       THEN Handed("consume_if", Head(peeked), "", inner, handed.taken + 1)
                       ELSE Handed("consume_if", NoToken, "", inner, handed.taken)

LexConsumeIf ==
    /\ LexerUsable
    /\ \E accept \in BOOLEAN : LexerConsumeIf(consume_token(inner), accept)
    /\ UNCHANGED <<source, math, vmvars>>

(* ------------------------- the lexer's sources ------------------------ *)
\* the byte strings of at most n bytes of S
BytesUpTo(S, n) == UNION {[1..k -> S] : k \in 0..n}
\* the byte strings of 1..n bytes of S
BytesFrom1(S, n) == UNION {[1..k -> S] : k \in 1..n}

\* newlines, a blank and a letter, in the places that take newlines: between
\* names, in a long string, in a long comment, after --, after a backslash in
\* a short string and after \z
LineContexts ==
    { [pre |-> <<97>>, post |-> <<97>>],
      [pre |-> <<LBRACKET, LBRACKET>>, post |-> <<RBRACKET, RBRACKET, 97>>],
      [pre |-> <<97, MINUS, MINUS, LBRACKET, LBRACKET>>, post |-> <<RBRACKET, RBRACKET, 97>>],
      [pre |-> <<97, MINUS, MINUS>>, post |-> <<97>>],
      [pre |-> <<97, QUOTE, BACKSLASH>>, post |-> <<QUOTE, 97>>],
      [pre |-> <<QUOTE, BACKSLASH, 122>>, post |-> <<QUOTE, 97>>] }
LineSources ==
    {c.pre \o body \o c.post : c \in LineContexts, body \in BytesUpTo({LF, CR, SPACE, 97}, MaxLineBody)}

\* long strings and long comments of level 0 and 1 over ']', '=' and a letter
LongOpeners ==
    { <<LBRACKET, LBRACKET>>, <<LBRACKET, EQUALS, LBRACKET>>,
      <<MINUS, MINUS, LBRACKET, LBRACKET>>, <<MINUS, MINUS, LBRACKET, EQUALS, LBRACKET>> }
LongSources ==
    {open \o body : open \in LongOpeners, body \in BytesUpTo({RBRACKET, EQUALS, 97}, MaxLongBody)}

\* short strings holding one decimal escape of the digits 0, 2, 5, 6
DecimalSources ==
    {<<QUOTE, BACKSLASH>> \o ds \o <<QUOTE>> : ds \in BytesFrom1({48, 50, 53, 54}, MaxDecimalRun)}
\* short strings holding one \u{...} escape: leading zeros, a digit of 1, 7,
\* 8, F and a run of 0 or of F
HexRuns ==
    {[i \in 1..z |-> 48] \o <<d>> \o [i \in 1..k |-> f] :
        z \in 0..2, d \in {49, 55, 56, 70}, f \in {48, 102}, k \in 0..MaxHexRun}
Utf8Sources ==
    {<<QUOTE, BACKSLASH, 117, LBRACE>> \o hs \o <<RBRACE, QUOTE>> : hs \in HexRuns}

Sources == LineSources \cup LongSources \cup DecimalSources \cup Utf8Sources

\* a Lexer is created on one of the sources; the runtime stays as created
LexInit == VmNew /\ MathNew(<<>>) /\ \E src \in Sources : LexerNew(src)

LexNext ==
    \/ LexConsume
    \/ LexPeek
    \/ LexPeek2
    \/ LexConsumeIf

LexSpec == LexInit /\ [][LexNext]_vars

(* =========================== the math library ========================= *)
\* Ok(Action::Return(vec![value]))
Returned(value) == [NoResult EXCEPT !.tag = "Return", !.value = value]
\* Err(ErrorKind::ArgumentError { nth, message })
ArgumentError(nth, message) ==
    [NoResult EXCEPT !.tag = "Err", !.kind = "ArgumentError", !.nth = nth,
                     !.message = message]
\* Err(ErrorKind::ArgumentTypeError { nth, .. })
ArgumentTypeError(nth) ==
    [NoResult EXCEPT !.tag = "Err", !.kind = "ArgumentTypeError", !.nth = nth]
\* Err(ErrorKind::other(message))
OtherError(message) ==
    [NoResult EXCEPT !.tag = "Err", !.kind = "Other", !.message = message]
\* a Rust panic inside the native function
Panicked == [NoResult EXCEPT !.tag = "Panic"]
\* a float the model does not compute
NumberV == [ty |-> "Number", v |-> 0, name |-> "", up |-> <<>>]

\* args.nth(n).to_integer() / .to_number() succeed: the argument is there and
\* converts (of the model's values the integers do)
ArgIsInteger(args, n) == n <= Len(args) /\ args[n].ty = "Integer"

\* the unsigned integers of the integers' width, `x as u64` and `u as Integer`
Modulus == 2 ^ IntBits
Unsigned == 0..(Modulus - 1)
AsUnsigned(x) == x % Modulus
AsInteger(u) == IF u > MaxInteger THEN u - Modulus ELSE u

\* x & y and x | y on unsigned integers
RECURSIVE BitAnd(_, _)
BitAnd(x, y) ==
    IF x = 0 \/ y = 0 THEN 0
    ELSE (x % 2) * (y % 2) + 2 * BitAnd(x \div 2, y \div 2)
RECURSIVE BitOr(_, _)
BitOr(x, y) ==
    IF x = 0 THEN y
    ELSE IF y = 0 THEN x
    ELSE (IF x % 2 = 1 \/ y % 2 = 1 THEN 1 ELSE 0) + 2 * BitOr(x \div 2, y \div 2)

\* mask |= mask >> 1; mask |= mask >> 2; .. up to half the width
RECURSIVE Smear(_, _)
Smear(mask, shift) ==
    IF shift >= IntBits THEN mask
    ELSE Smear(BitOr(mask, mask \div (2 ^ shift)), 2 * shift)

\* (every draw taken, whether it lies in the range or not)
ProjectAnyDraw(range, rand) == TRUE
\* the loop of project ends with the draw rand: the range is all ones, or the
\* masked draw lies in the range
ProjectTakes(range, rand) ==
    \/ BitAnd(range, (range + 1) % Modulus) = 0
    \/ BitAnd(rand, Smear(range, 1)) <= range
\* project(rng, range), rand being the draw the function returns with
project(range, rand) ==
    IF BitAnd(range, (range + 1) % Modulus) = 0 THEN BitAnd(rand, range)
    ELSE BitAnd(rand, Smear(range, 1))

\* random_in_range(rng, lower, upper)
random_in_range(lower, upper, rand) ==
    (lower + project((upper - lower) % Modulus, rand)) % Modulus

\* the closure math.random, rand being the draw its generator gives last
math_random(args, rand) ==
    LET interval(lower, upper) ==
            IF lower <= upper
            THEN Returned(IntV(AsInteger(random_in_range(AsUnsigned(lower),
                                                         AsUnsigned(upper), rand))))
            ELSE ArgumentError(1, "interval is empty")
    IN CASE Len(args) = 0 -> Returned(NumberV)
         [] Len(args) = 1 ->
              IF ~ArgIsInteger(args, 1) THEN ArgumentTypeError(1)
              ELSE IF args[1].v = 0 THEN Returned(IntV(AsInteger(rand)))
              ELSE interval(1, args[1].v)
         [] Len(args) = 2 ->
              IF ~ArgIsInteger(args, 1) THEN ArgumentTypeError(1)
              ELSE IF ~ArgIsInteger(args, 2) THEN ArgumentTypeError(2)
              ELSE interval(args[1].v, args[2].v)
         [] OTHER -> OtherError("wrong number of arguments")
\* the range project is called with, when it is called
RandomRange(args) ==
    IF Len(args) = 1 THEN (args[1].v - 1) % Modulus ELSE (args[2].v - args[1].v) % Modulus
CallsProject(args) ==
    /\ Len(args) \in {1, 2}
    /\ \A n \in 1..Len(args) : ArgIsInteger(args, n)
    /\ IF Len(args) = 1 THEN args[1].v >= 1 ELSE args[1].v <= args[2].v

\* x % y of Rust on integers: the remainder of the truncated division
Rem(x, y) == x - y * TruncDiv(x, y)

\* math_fmod. The remainder of the minimum integer by -1 overflows: `%`
\* panics on it in every build
math_fmod(args) ==
    IF Len(args) < 1 THEN ArgumentTypeError(1)
    ELSE IF Len(args) < 2 THEN ArgumentTypeError(2)
    ELSE LET x == args[1]
             y == args[2]
         IN IF x.ty = "Integer" /\ y = IntV(0) THEN ArgumentError(2, "zero")
            ELSE IF x.ty = "Integer" /\ y.ty = "Integer"
            THEN IF x.v = MinInteger /\ y.v = -1 THEN Panicked
                 ELSE Returned(IntV(Rem(x.v, y.v)))
            ELSE IF x.ty # "Integer" THEN ArgumentTypeError(1)
            ELSE ArgumentTypeError(2)

\* the arguments: integers of the whole range and a value that is no number
MathValues == {IntV(n) : n \in MinInteger..MaxInteger} \cup {Nil}
MathArgs ==
    UNION {[1..n -> MathValues] : n \in 0..2} \cup {<<IntV(1), IntV(2), IntV(3)>>}

MathRandom ==
    /\ math.fn = "new"
    /\ \E rand \in Unsigned :
         /\ CallsProject(math.args) => ProjectTakes(RandomRange(math.args), rand)
         /\ math' = [math EXCEPT !.fn = "random", !.result = math_random(math.args, rand)]
    /\ UNCHANGED <<vmvars, lexvars>>

MathFmod ==
    /\ math.fn = "new"
    /\ math' = [math EXCEPT !.fn = "fmod", !.result = math_fmod(math.args)]
    /\ UNCHANGED <<vmvars, lexvars>>

\* a function of the math library is called once with arguments of MathArgs
MathInit == VmNew /\ LexerNew(<<>>) /\ \E args \in MathArgs : MathNew(args)
MathNext == MathRandom \/ MathFmod
MathSpec == MathInit /\ [][MathNext]_vars

(* ======================= the scheduler's Err arm ====================== *)
\* the thread an error was raised on, and its frames when the error occurred
ErrThread == Last(before.thread_stack)
ErrFrames == before.frames[ErrThread]
Protected == {i \in 1..Len(ErrFrames) : ErrFrames[i].kind = "ProtectedCallContinuation"}
Topmost == CHOOSE i \in Protected : \A j \in Protected : j <= i
\* the last step ended in an error that the scheduler has routed
Failed == last.err # "" /\ last.arm # "panic"
Caught == Failed /\ Protected # {}
Escaped == Failed /\ Protected = {}

\* C1: when a frame fails with an error and the running thread's frames hold
\* one or more protected-call continuations, Err(kind) goes to the topmost of
\* them only: the frames above it are gone, it is now the top frame, the frames
\* below it (outer protected calls among them) are as they were, and the thread
\* is still on the thread stack with execute still running.
C1_ErrorGoesToTopmostProtectedCall ==
    Caught =>
        /\ Len(frames[ErrThread]) = Topmost
        /\ frames[ErrThread][Topmost] = [ErrFrames[Topmost] EXCEPT !.args = ErrArgs(last.err)]
        /\ \A j \in 1..(Topmost - 1) : frames[ErrThread][j] = ErrFrames[j]
        /\ thread_stack = before.thread_stack
        /\ outcome.tag = "Running"

\* an error under two nested protected calls, with frames above the inner one
C1_Witness ==
    /\ Caught
    /\ Cardinality(Protected) >= 2
    /\ Len(ErrFrames) > Topmost
    /\ Last(frames[ErrThread]).args = ErrArgs(last.err)

\* the boundary of the protected call an error was unwound to
Boundary == ErrFrames[Topmost].callee_bottom

\* C2: after an error is unwound to a protected-call continuation with
\* boundary b, the thread has no open upvalue with index >= b, every cell the
\* unwind closed holds the value its stack slot had when the error occurred,
\* and the open upvalues with index < b are still open, on the same cells.
C2_UnwindClosesUpvaluesFromBoundary ==
    Caught =>
        /\ \A i \in DOMAIN open_upvalues[ErrThread] : i < Boundary
        /\ \A i \in DOMAIN before.open_upvalues[ErrThread] :
             LET c == before.open_upvalues[ErrThread][i]
             IN IF i >= Boundary
                THEN upvalues[c] = ClosedCell(Get(before.stack[ErrThread], i))
                ELSE /\ i \in DOMAIN open_upvalues[ErrThread]
                     /\ open_upvalues[ErrThread][i] = c
                     /\ upvalues[c] = OpenCell(ErrThread, i)

\* an unwind with open upvalues below, at and above the boundary
C2_Witness ==
    /\ Caught
    /\ \E i \in DOMAIN before.open_upvalues[ErrThread] : i < Boundary
    /\ Boundary \in DOMAIN before.open_upvalues[ErrThread]
    /\ \E i \in DOMAIN before.open_upvalues[ErrThread] :
         i > Boundary /\ Get(before.stack[ErrThread], i) # Nil

\* C3: when an error escapes a thread other than the main thread, with no
\* protected-call continuation among its frames, the thread is popped, the
\* resume continuation on top of the resumer's frames has Err(kind), the
\* resumer is the running thread, and execute has not returned.
C3_CoroutineErrorGoesToResumer ==
    (Escaped /\ ErrThread # main_thread) =>
        LET r == before.thread_stack[Len(before.thread_stack) - 1]
        IN /\ thread_stack = Front(before.thread_stack)
           /\ current_thread = r
           /\ frames[r] # <<>>
           /\ Last(frames[r]).kind = "ResumeContinuation"
           /\ frames[r] = [before.frames[r] EXCEPT ![Len(before.frames[r])].args =
                                                       ErrArgs(last.err)]
           /\ outcome.tag = "Running"

\* an error has left a coroutine and waits in the main thread's continuation
C3_Witness ==
    /\ Escaped
    /\ ErrThread # main_thread
    /\ current_thread = main_thread
    /\ Last(frames[main_thread]).args = ErrArgs(last.err)

\* C4: when an error escapes the main thread, with no protected-call
\* continuation among its frames, execute returns a RuntimeError with that kind
\* and the traceback of the main thread's frames as they were when the error
\* occurred, and the thread stack is empty.
C4_MainErrorReturnsTraceback ==
    (Escaped /\ ErrThread = main_thread) =>
        /\ outcome = [tag |-> "Err", kind |-> last.err,
                      traceback |-> traceback(ErrFrames)]
        /\ thread_stack = <<>>

\* an error returned to the host from under two Lua frames
C4_Witness ==
    /\ Escaped
    /\ ErrThread = main_thread
    /\ outcome.tag = "Err"
    /\ Len(outcome.traceback) >= 2

\* C5 as claimed: a thread that an unprotected error escapes, the main thread
\* included, has status Error once the step that handled the error is over.
C5_EscapedThreadIsError ==
    Escaped => status[ErrThread] = [tag |-> "Error", kind |-> last.err]

\* C5, amended: a coroutine thread that an unprotected error escapes has status
\* Error(kind) once the step is over; the main thread has by then been replaced
\* by a new thread (empty stack, frames and open upvalues, status not Error).
C5_EscapedCoroutineIsError ==
    Escaped =>
        IF ErrThread # main_thread
        THEN status[ErrThread] = [tag |-> "Error", kind |-> last.err]
        ELSE /\ status[ErrThread].tag # "Error"
             /\ stack[ErrThread] = <<>>
             /\ frames[ErrThread] = <<>>
             /\ DOMAIN open_upvalues[ErrThread] = {}

\* a coroutine in status Error after its error went to the resumer
C5_Witness ==
    /\ Escaped
    /\ ErrThread # main_thread
    /\ status[ErrThread].tag = "Error"
    /\ outcome.tag = "Running"

(* ===================== tail calls, returns, upvalues ================== *)
\* the thread the last step ran on and, when that step was an instruction
\* that raised no error, the frame and the closure it ran in
T == last.thread
Frame0 == Last(before.frames[T])
Closure1 == Get(before.stack[T], Frame0.bottom)
Done(ops) == last.op \in ops /\ last.arm = "none"

\* C6: TailCall pops the running Lua frame before the callee's frame is
\* pushed: after a tail call the thread has as many frames as before it, the
\* frames below are the same, and the new frame stands at the old frame's
\* bottom; so a chain of tail calls never raises the frame count.
C6_TailCallKeepsFrameCount ==
    Done({"TailCall"}) =>
        /\ Len(frames[T]) = Len(before.frames[T])
        /\ Front(frames[T]) = Front(before.frames[T])
        /\ Last(frames[T]).bottom = Frame0.bottom

\* the second tail call of a chain has entered a Lua function
C6_Witness ==
    /\ Done({"TailCall"})
    /\ Last(frames[T]).kind = "Lua"
    /\ Get(stack[T], Last(frames[T]).bottom).name = "TLeaf"
    /\ Closure1.name = "Tail2"
    /\ Len(frames[T]) = 2

\* the number of arguments of the TailCall just executed: B-1, or with B = 0
\* the values from register A+1 up to the stack top
TailCallArgs ==
    IF last.b > 0 THEN last.b - 1
    ELSE before.state.saved_stack_top - (Frame0.base + last.a + 1)

\* C7 as claimed: after TailCall A B with n arguments the callee and its n
\* arguments stand at stack[frame.bottom .. frame.bottom+n] in their order and
\* the stack has length frame.bottom+n+1.
C7_TailCallLayout ==
    (Done({"TailCall"}) /\ TailCallArgs >= 0) =>
        /\ Len(stack[T]) = Frame0.bottom + TailCallArgs + 1
        /\ \A j \in 0..TailCallArgs :
             Get(stack[T], Frame0.bottom + j) = Get(before.stack[T], Frame0.base + last.a + j)

\* C8: on a TailCall or Return with the K flag, the open upvalues with index
\* >= frame.bottom are closed before the frame's slots are overwritten or cut
\* off: no such upvalue is still open, and each cell holds the value its slot
\* had just before the instruction.
C8_UpvaluesClosedBeforeOverwrite ==
    (Done({"TailCall", "Return"}) /\ last.k) =>
        /\ \A i \in DOMAIN open_upvalues[T] : i < Frame0.bottom
        /\ \A i \in DOMAIN before.open_upvalues[T] :
             i >= Frame0.bottom =>
                 upvalues[before.open_upvalues[T][i]] = ClosedCell(Get(before.stack[T], i))

\* a Return with K closed a cell whose slot the results then overwrote
C8_Witness ==
    /\ Done({"Return"})
    /\ last.k
    /\ \E i \in DOMAIN before.open_upvalues[T] :
         /\ i >= Frame0.bottom
         /\ i < Len(stack[T])
         /\ Get(stack[T], i) # Get(before.stack[T], i)
         /\ upvalues[before.open_upvalues[T][i]].value # Get(stack[T], i)

Cell0 == Closure1.up[last.b + 1]
Upvalue0 == before.upvalues[Cell0]
Register0 == Get(before.stack[T], Frame0.base + last.a)

\* C10: through an Open upvalue at slot S of a thread, SetUpval writes stack
\* slot S and nothing else and GetUpval reads slot S, whether S is below the
\* frame's base or inside its window; through a Closed cell SetUpval changes
\* the cell only and GetUpval reads the cell; and the instructions that write a
\* register only (Move, LoadI, GetUpval) change no cell.
C10_OpenUpvalueIsTheStackSlot ==
    /\ Done({"SetUpval"}) =>
         IF Upvalue0.open
         THEN /\ stack = [before.stack EXCEPT
                            ![Upvalue0.thread] = Set(@, Upvalue0.index, Register0)]
              /\ upvalues = before.upvalues
         ELSE /\ stack = before.stack
              /\ upvalues = [before.upvalues EXCEPT ![Cell0] = ClosedCell(Register0)]
    /\ Done({"GetUpval"}) =>
         /\ stack = [before.stack EXCEPT
                       ![T] = Set(@, Frame0.base + last.a,
                                  IF Upvalue0.open
                                  THEN Get(before.stack[Upvalue0.thread], Upvalue0.index)
                                  ELSE Upvalue0.value)]
    /\ Done({"Move", "LoadI", "GetUpval"}) => upvalues = before.upvalues

\* a SetUpval has written, through an Open upvalue, a slot inside the window
C10_Witness ==
    /\ Done({"SetUpval"})
    /\ Upvalue0.open
    /\ Upvalue0.thread = T
    /\ Upvalue0.index >= Frame0.base
    /\ Get(stack[T], Upvalue0.index) # Get(before.stack[T], Upvalue0.index)

(* ================================ Close =============================== *)
\* C11: Close A turns exactly the open upvalues with index >= base+A into
\* Closed cells holding their slots' values, leaves the open upvalues below
\* and every other cell as they were, changes no stack slot, and the frame
\* goes on at the instruction after Close.
C11_CloseClosesFromRegister ==
    Done({"Close"}) =>
        LET floor == Frame0.base + last.a
            closing == {i \in DOMAIN before.open_upvalues[T] : i >= floor}
        IN /\ DOMAIN open_upvalues[T] = DOMAIN before.open_upvalues[T] \ closing
           /\ \A i \in DOMAIN open_upvalues[T] :
                open_upvalues[T][i] = before.open_upvalues[T][i]
           /\ \A c \in DOMAIN before.upvalues :
                upvalues[c] =
                    IF \E i \in closing : before.open_upvalues[T][i] = c
                    THEN ClosedCell(Get(before.stack[T], before.upvalues[c].index))
                    ELSE before.upvalues[c]
           /\ stack = before.stack
           /\ frames[T] = [before.frames[T] EXCEPT
                             ![Len(before.frames[T])].pc = before.state.pc + 1]

\* a Close that closed a cell holding a value and left a lower one open
C11_Witness ==
    /\ Done({"Close"})
    /\ \E i \in DOMAIN before.open_upvalues[T] :
         /\ i >= Frame0.base + last.a
         /\ upvalues[before.open_upvalues[T][i]].value # Nil
    /\ \E i \in DOMAIN open_upvalues[T] : upvalues[open_upvalues[T][i]].open

(* ====================== metamethods of arithmetic ===================== *)
\* the operands an instruction of the running frame read, and its event
RegisterAt(r) == Get(before.stack[T], Frame0.base + r)
\* the metamethod a value's own metatable holds for an event (Nil for none)
EventOf(value, event) == MetatableField(metatable(value).name, event)
\* the instruction standing before the one a step without error ran
PrevInsn ==
    CHOOSE i \in Code(Get(before.stack[T], Frame0.bottom).name, before.state.pc - 1, 0) :
        TRUE

\* C12: MmBin takes the event's metamethod from the left operand's metatable
\* and, when that metatable does not define the event, from the right
\* operand's: the metamethod found is invoked, and a TypeError is raised only
\* when neither operand provides the event.
C12_MmBinLooksLeftThenRight ==
    last.op = "MmBin" /\ last.arm # "panic" =>
        LET ra == RegisterAt(last.a)
            rb == RegisterAt(last.b)
            found == IF EventOf(ra, last.key) # Nil THEN EventOf(ra, last.key)
                     ELSE EventOf(rb, last.key)
        IN /\ found # Nil =>
                /\ last.err = ""
                /\ Get(stack[T], Frame0.base + PrevInsn.a)
                     = execute_value(found, <<ra, rb>>).value
           /\ last.err = "TypeError" => found = Nil

\* the metamethod of an event for two operands: the left operand's, else the
\* right operand's
Found(ra, rb, event) ==
    IF EventOf(ra, event) # Nil THEN EventOf(ra, event) ELSE EventOf(rb, event)

\* C13: an MmBin that invokes a metamethod calls it with (left operand, right
\* operand), stores its result in register A of the instruction before the
\* MmBin and touches no other slot; the frame's saved pc is the instruction
\* after the MmBin, where the frame is entered again.
C13_MmBinStoresResultInPreviousA ==
    Done({"MmBin"}) =>
        LET ra == RegisterAt(last.a)
            rb == RegisterAt(last.b)
            result == NativeMetamethodResult(Found(ra, rb, last.key).name, <<ra, rb>>)
        IN /\ Found(ra, rb, last.key) # Nil
           /\ stack[T] = Set(before.stack[T], Frame0.base + PrevInsn.a, result)
           /\ frames[T] = [before.frames[T] EXCEPT
                             ![Len(before.frames[T])].pc = before.state.pc + 1]
           /\ ~state.active

\* the metamethod returned its second argument, the right operand, into a
\* register that is not the MmBin's A
C13_Witness ==
    /\ Done({"MmBin"})
    /\ Found(RegisterAt(last.a), RegisterAt(last.b), last.key) = NativeV("second")
    /\ RegisterAt(last.a) # RegisterAt(last.b)
    /\ PrevInsn.a # last.a
    /\ Get(stack[T], Frame0.base + PrevInsn.a) = RegisterAt(last.b)

\* C14: AddI / AddK on a left operand that is a table whose metatable has
\* __add goes on through MmBinI / MmBinK to the metamethod: it is invoked
\* with the table and the immediate or constant, and its result is stored in
\* register A of the arithmetic instruction.
C14_ImmediateArithmeticReachesMetamethod ==
    /\ last.op \in {"MmBinI", "MmBinK"}
    /\ EventOf(RegisterAt(last.a), last.key) # Nil
    => /\ last.arm = "none"
       /\ last.err = ""
       /\ Get(stack[T], Frame0.base + PrevInsn.a)
            = NativeMetamethodResult(EventOf(RegisterAt(last.a), last.key).name,
                                     <<RegisterAt(last.a), IntV(PrevInsn.c)>>)

(* ============================== for loops ============================= *)
\* the registers a numeric for loop is prepared with
ForInit == RegisterAt(last.a)
ForLimit == RegisterAt(last.a + 1)
ForStep == RegisterAt(last.a + 2)
\* integer init, limit and non-zero step whose difference limit - init fits
ForDomain ==
    /\ ForInit.ty = "Integer" /\ ForLimit.ty = "Integer" /\ ForStep.ty = "Integer"
    /\ ForStep.v # 0
    /\ ~Overflows(ForLimit.v - ForInit.v)
ForRuns ==
    \/ ForStep.v > 0 /\ ForInit.v <= ForLimit.v
    \/ ForStep.v < 0 /\ ForInit.v >= ForLimit.v

\* the pc the frame goes on at after a step: the running state's, or the one
\* saved in the frame when the step left the frame
PcAfter == IF state.active THEN state.pc ELSE Last(frames[T]).pc

\* C15: for integer init, limit and non-zero step with limit - init in range,
\* the body runs floor(|limit-init| / |step|) + 1 times with the loop variable
\* init, init+step, ..: ForPrep enters the body with A+3 = init and
\* floor(|limit-init| / |step|) further iterations left at A+1 when the loop
\* runs at all, and jumps forward by Bx+1 otherwise; ForLoop runs the body
\* again, with A and A+3 advanced by step, exactly while iterations are left.
C15_ForLoopRunsCountedIterations ==
    /\ last.op = "ForPrep" /\ ForDomain =>
         /\ last.arm = "none"
         /\ IF ForRuns
            THEN /\ PcAfter = before.state.pc + 1
                 /\ Get(stack[T], Frame0.base + last.a + 3) = ForInit
                 /\ Get(stack[T], Frame0.base + last.a + 1)
                      = IntV(Abs(ForLimit.v - ForInit.v) \div Abs(ForStep.v))
            ELSE /\ PcAfter = before.state.pc + 1 + last.b + 1
                 /\ stack = before.stack
    /\ Done({"ForLoop"}) =>
         IF RegisterAt(last.a + 1).v > 0
         THEN /\ PcAfter = before.state.pc + 1 - last.b
              /\ Get(stack[T], Frame0.base + last.a + 1).v = RegisterAt(last.a + 1).v - 1
              /\ Get(stack[T], Frame0.base + last.a + 3).v
                   = RegisterAt(last.a).v + ForStep.v
              /\ Get(stack[T], Frame0.base + last.a)
                   = Get(stack[T], Frame0.base + last.a + 3)
         ELSE /\ PcAfter = before.state.pc + 1
              /\ stack = before.stack

\* C16: TForCall A calls stack[A] with exactly the two arguments stack[A+1]
\* and stack[A+2] in a call block at A+4 (so that the results start at A+4)
\* and leaves the registers below A+4 as they were; TForLoop A copies A+4 into
\* A+2 and jumps back by Bx when A+4 is not nil, and otherwise goes on with
\* the stack unchanged.
C16_TForCallAndLoop ==
    /\ last.op = "TForCall" /\ RegisterAt(last.a).ty \in {"LuaClosure", "NativeFunction"} =>
         LET new_bottom == Frame0.base + last.a + 4
         IN /\ last.arm = "none" /\ last.err = ""
            /\ stack[T] = SubSeq(before.stack[T], 1, new_bottom)
                            \o <<RegisterAt(last.a), RegisterAt(last.a + 1),
                                 RegisterAt(last.a + 2)>>
            /\ Len(frames[T]) = Len(before.frames[T]) + 1
            /\ Last(frames[T]).bottom = new_bottom
    /\ Done({"TForLoop"}) =>
         IF RegisterAt(last.a + 4) # Nil
         THEN /\ stack[T] = Set(before.stack[T], Frame0.base + last.a + 2,
                                RegisterAt(last.a + 4))
              /\ PcAfter = before.state.pc + 1 - last.b
         ELSE /\ stack = before.stack
              /\ PcAfter = before.state.pc + 1

(* ============================ the scheduler =========================== *)
\* C17: execute returns Ok only from a state in which the thread stack is
\* empty and the collector asks for no step; and when the scheduler finds a
\* GC step due (after a turn of its loop, or with the thread stack empty) the
\* step taken next is that GC step, so Exit comes only after the step has run.
C17_ExitOnlyWhenDoneAndCollected ==
    [][ /\ outcome'.tag = "Ok" /\ outcome.tag # "Ok"
          => thread_stack = <<>> /\ ~gc.pending
        /\ /\ outcome.tag = "Running" /\ ~state.active /\ gc.pending
           /\ ~gc.stepped \/ thread_stack = <<>>
          => last'.op = "StepGc" /\ outcome'.tag = "Running" ]_vars

\* execute has returned Ok right after a GC step that ran with the thread
\* stack already empty
C17_Witness ==
    /\ outcome.tag = "Ok"
    /\ last.op = "Exit"
    /\ gc.stepped

\* the frames of a thread but for the arguments its continuations wait for
Kinds(fs) == [i \in 1..Len(fs) |-> [fs[i] EXCEPT !.args = NoArgs]]

\* C18: while execute runs with a non-empty thread stack, the bottom of the
\* thread stack is the main thread, current_thread() is its top, no thread is
\* on it twice and every thread below the top waits in a ResumeContinuation;
\* a step executes, pops, unwinds and marks the frames and the status of the
\* thread that was on top only: every other thread keeps its frames (a
\* resumed thread gets its first frame, a resumer its continuation's
\* arguments) and its status (but for the thread a step creates or resumes).
C18_OnlyTheTopThreadRuns ==
    /\ outcome.tag = "Running" /\ thread_stack # <<>> =>
         /\ thread_stack[1] = main_thread
         /\ current_thread = thread_stack[Len(thread_stack)]
         /\ \A i, j \in 1..Len(thread_stack) : thread_stack[i] = thread_stack[j] => i = j
         /\ \A i \in 1..(Len(thread_stack) - 1) :
              /\ frames[thread_stack[i]] # <<>>
              /\ Last(frames[thread_stack[i]]).kind = "ResumeContinuation"
    /\ before.thread_stack # <<>> /\ last.arm # "panic" =>
         \A u \in ThreadIds \ {Last(before.thread_stack)} :
            /\ \/ Kinds(frames[u]) = Kinds(before.frames[u])
               \/ /\ last.op = "resume" /\ last.err = ""
                  /\ u = Last(thread_stack)
                  /\ before.frames[u] = <<>> /\ Len(frames[u]) = 1
            /\ \/ status[u] = before.status[u]
               \/ last.op \in {"create", "resume"} /\ last.err = ""

\* an error raised on a coroutine that a protected call of that coroutine
\* caught, the main thread waiting below it
C18_Witness ==
    /\ outcome.tag = "Running"
    /\ Len(thread_stack) = 2
    /\ last.err # "" /\ last.arm = "unwind"
    /\ frames[main_thread] = before.frames[main_thread]
    /\ frames[current_thread] # before.frames[current_thread]

(* ============================== __call ================================ *)
IsFunction(v) == v.ty \in {"LuaClosure", "NativeFunction"}
\* what stands from the callee slot on once a frame can be pushed for the
\* callee v: v itself if it is a function, else the __call metamethod in
\* front of it, and so on; <<>> when the chain ends in a value without __call
RECURSIVE Receivers(_)
Receivers(v) ==
    IF IsFunction(v) THEN <<v>>
    ELSE IF metamethod_of_object("__call", v) = Nil THEN <<>>
    ELSE LET front == Receivers(metamethod_of_object("__call", v))
         IN IF front = <<>> THEN <<>> ELSE front \o <<v>>

\* the callee slot of the Call that ran, and the arguments B names
CalleeBottom == Frame0.base + last.a
CallArgs == SubSeq(before.stack[T], CalleeBottom + 2, CalleeBottom + last.b)
\* the frame on top when the error was raised is the caller's, stopped after
\* its Call
CallerOnTop ==
    /\ Frame0.kind = "Lua"
    /\ Frame0.bottom < CalleeBottom
    /\ \E i \in Code(Get(before.stack[T], Frame0.bottom).name, Frame0.pc - 1, 0) :
         i.op = "Call" /\ i.a = last.a

\* C19: a frame pushed for a callee that is not a function but has __call
\* finds the metamethod inserted at the callee slot, the callee and its
\* arguments one slot up (again for a metamethod that is itself such a
\* value), and the frame is the metamethod's; for a callee without __call the
\* push is an error, no frame is pushed and the stack is as it was handed in.
\* Both for the value Runtime::execute starts with and for a Call with B > 0.
C19_CallMetamethodTakesCalleeSlot ==
    /\ last.op = "Execute" /\ outcome.tag # "Panic" =>
         LET v == Last(stack[main_thread])
         IN IF Receivers(v) # <<>>
            THEN /\ outcome.tag = "Running"
                 /\ stack[main_thread] = Receivers(v)
                 /\ Len(frames[main_thread]) = 1
                 /\ frames[main_thread][1].bottom = 0
                 /\ frames[main_thread][1].kind
                      = IF Receivers(v)[1].ty = "LuaClosure" THEN "Lua" ELSE "Native"
            ELSE /\ outcome.tag = "Err"
                 /\ stack[main_thread] = <<v>>
                 /\ frames[main_thread] = <<>>
    /\ last.op = "Call" /\ last.b > 0 /\ last.arm # "panic" =>
         LET v == RegisterAt(last.a)
         IN IF Receivers(v) # <<>>
            THEN /\ last.err = ""
                 /\ stack[T] = SubSeq(before.stack[T], 1, CalleeBottom)
                                 \o Receivers(v) \o CallArgs
                 /\ Len(frames[T]) = Len(before.frames[T]) + 1
                 /\ Last(frames[T]).bottom = CalleeBottom
                 /\ Last(frames[T]).kind
                      = IF Receivers(v)[1].ty = "LuaClosure" THEN "Lua" ELSE "Native"
            ELSE /\ last.err # ""
                 /\ CallerOnTop
                 /\ Len(before.stack[T]) = CalleeBottom + last.b
                 /\ Get(before.stack[T], CalleeBottom) = v

\* a Call of a table whose __call is a table whose __call is a function
C19_Witness ==
    /\ Done({"Call"})
    /\ last.b > 1
    /\ Len(Receivers(RegisterAt(last.a))) = 3
    /\ Last(frames[T]).bottom = CalleeBottom

(* ============================== indexing ============================== *)
\* the value an indexing instruction indexes: upvalue B for GetTabUp,
\* register B for the others
IndexedValue ==
    IF last.op = "GetTabUp"
    THEN IF Upvalue0.open
         THEN Get(before.stack[Upvalue0.thread], Upvalue0.index)
         ELSE Upvalue0.value
    ELSE RegisterAt(last.b)

\* C20: GetTable, GetI, GetField, Self_ and GetTabUp on a value that is not a
\* table consult the value's metatable (the per-type one for a string) for
\* __index: with an __index there the instruction raises no error, and a
\* TypeError is raised only for a value without __index.
C20_IndexingConsultsMetatable ==
    /\ last.op \in {"GetTable", "GetI", "GetField", "Self_", "GetTabUp"}
    /\ last.arm # "panic"
    /\ IndexedValue.ty # "Table"
    => /\ metamethod_of_object("__index", IndexedValue) # Nil => last.err = ""
       /\ last.err = "TypeError" => metamethod_of_object("__index", IndexedValue) = Nil

(* ============================== varargs =============================== *)
\* the chunk the host executed, the number M of arguments it calls the vararg
\* function with and the number N of that function's fixed parameters
VarArgMain == Get(before.stack[main_thread], 0).name
VarArgM == NumArgs(VarArgMain)
VarArgN == NumParams(Closure1.name)
\* the call's extra arguments in call order: the chunk passes 1, 2, 3
ExtraArgs == [i \in 1..(VarArgM - VarArgN) |-> IntV(VarArgN + i)]
\* a vararg function called with at least its fixed parameters ran the step
InVarArgCall(ops) ==
    /\ Done(ops)
    /\ Closure1.name \in VarArgProtos
    /\ VarArgM >= VarArgN
\* the number of values VarArg A C writes
NumWritten == IF last.c > 0 THEN last.c - 1 ELSE Len(ExtraArgs)

\* C21: in a vararg function with N fixed parameters called with M >= N
\* arguments, VarArgPrep records M-N extra arguments and keeps them, in call
\* order, below the function slot; VarArg A C writes exactly C-1 values from
\* register A on (all M-N extras when C = 0): the first min(C-1, M-N) extras
\* in order, then nil, and no other slot of the stack changes.
C21_VarArgCopiesExtraArguments ==
    /\ InVarArgCall({"VarArgPrep"}) =>
         LET frame == Last(frames[T])
         IN /\ frame.num_extra_args = VarArgM - VarArgN
            /\ SubSeq(stack[T], frame.base - Len(ExtraArgs), frame.base - 1) = ExtraArgs
    /\ InVarArgCall({"VarArg"}) =>
         /\ Frame0.num_extra_args = Len(ExtraArgs)
         /\ \A k \in 0..(Len(stack[T]) - 1) :
              LET i == k - (Frame0.base + last.a)
              IN Get(stack[T], k) =
                   IF 0 <= i /\ i < NumWritten
                   THEN IF i < Len(ExtraArgs) THEN ExtraArgs[i + 1] ELSE Nil
                   ELSE IF k < Len(before.stack[T]) THEN Get(before.stack[T], k) ELSE Nil

\* three values were asked of two extra arguments
C21_Witness ==
    /\ InVarArgCall({"VarArg"})
    /\ last.c = 4
    /\ Len(ExtraArgs) = 2
    /\ RegisterAt(last.a) # Get(stack[T], Frame0.base + last.a)

(* ============================== returns =============================== *)
\* the number of results of Return A B: B-1, or with B = 0 the values from
\* register A up to the stack top the frame was entered with
NumResults ==
    IF last.b > 0 THEN last.b - 1
    ELSE before.state.saved_stack_top - (Frame0.base + last.a)

\* C22: Return A B with k results leaves them in order at
\* stack[bottom .. bottom+k-1], cuts the stack to length bottom+k and pops
\* exactly one frame; Return0 leaves the stack at length bottom; Return1 leaves
\* register A at bottom and the stack at length bottom+1. The stack is never
\* cut below the frame's bottom.
C22_ReturnLeavesResultsAtBottom ==
    /\ Done({"Return"}) =>
         /\ NumResults >= 0
         /\ stack[T] = SubSeq(before.stack[T], 1, Frame0.bottom)
                         \o SubSeq(before.stack[T], Frame0.base + last.a + 1,
                                   Frame0.base + last.a + NumResults)
         /\ frames[T] = Front(before.frames[T])
    /\ Done({"Return0"}) =>
         /\ stack[T] = SubSeq(before.stack[T], 1, Frame0.bottom)
         /\ frames[T] = Front(before.frames[T])
    /\ Done({"Return1"}) =>
         /\ stack[T] = Append(SubSeq(before.stack[T], 1, Frame0.bottom), RegisterAt(last.a))
         /\ frames[T] = Front(before.frames[T])
    /\ Done({"Return", "Return0", "Return1"}) => Len(stack[T]) >= Frame0.bottom

\* a Return with two results from a frame whose base is not bottom + 1
C22_Witness ==
    /\ Done({"Return"})
    /\ NumResults = 2
    /\ Frame0.base > Frame0.bottom + 1
    /\ Get(stack[T], Frame0.bottom) # Get(before.stack[T], Frame0.bottom)

(* ======================= to-be-closed variables ======================= *)
\* C23: a Tbc instruction marks its local as to-be-closed, so that leaving the
\* scope (Close, Return, TailCall with K, an error unwind) invokes the value's
\* __close metamethod: the instruction completes and the frame goes on to the
\* instruction that leaves the scope.
C23_TbcMarksTheLocal ==
    last.op = "Tbc" /\ EventOf(RegisterAt(last.a), "__close") # Nil
    => /\ last.arm = "none"
       /\ outcome.tag = "Running"

(* ========================= the lexer's line counter =================== *)
\* the newline sequences of a byte string, read from the left: a newline byte
\* followed by the other newline byte is one sequence
RECURSIVE NewlineSeqs(_)
NewlineSeqs(bytes) ==
    IF bytes = <<>> THEN 0
    ELSE IF Head(bytes) \notin Newlines THEN NewlineSeqs(Tail(bytes))
    ELSE IF Len(bytes) >= 2 /\ bytes[2] \in Newlines /\ bytes[2] # bytes[1]
         THEN 1 + NewlineSeqs(SubSeq(bytes, 3, Len(bytes)))
         ELSE 1 + NewlineSeqs(Tail(bytes))

\* the bytes the inner lexer has taken from the source
Taken == SubSeq(source, 1, Consumed(inner))

\* TRUE iff part occurs in bytes
Occurs(part, bytes) ==
    \E i \in 0..(Len(bytes) - Len(part)) : SubSeq(bytes, i + 1, i + Len(part)) = part

\* C24: the line counter is 1 on a new lexer and, after every call that did
\* not fail, 1 plus the number of newline sequences among the bytes taken so
\* far, where \n, \r, \r\n and \n\r are one sequence each and two identical
\* newline bytes are two, in every place where a newline may stand.
C24_LineCounterCountsNewlineSequences ==
    /\ handed.op = "new" => inner.lineno = 1
    /\ handed.err = "" => inner.lineno = 1 + NewlineSeqs(Taken)

\* \z has skipped a \n\r pair and a second \r: two lines
C24_Witness ==
    /\ handed.err = ""
    /\ handed.tok.kind = "String"
    /\ Occurs(<<BACKSLASH, 122, LF, CR, CR>>, Taken)
    /\ inner.lineno = 3

(* ====================== long strings and long comments ================ *)
\* a source of LongSources taken apart: where the '[' of the opener stands,
\* its level, the bytes after the opener
LongStart == IF source[1] = MINUS THEN 2 ELSE 0
LongLevel == IF source[LongStart + 2] = EQUALS THEN 1 ELSE 0
LongBodyAt == LongStart + LongLevel + 2
LongBody == SubSeq(source, LongBodyAt + 1, Len(source))

\* ']' followed by n '=' signs and ']'
Closer(n) == <<RBRACKET>> \o [i \in 1..n |-> EQUALS] \o <<RBRACKET>>
\* the places of bytes where part begins
Places(part, bytes) ==
    {i \in 1..(Len(bytes) - Len(part) + 1) : SubSeq(bytes, i, i + Len(part) - 1) = part}
\* the first place of the closer of level n in bytes, 0 if there is none
FirstCloser(bytes, n) ==
    IF Places(Closer(n), bytes) = {} THEN 0
    ELSE CHOOSE i \in Places(Closer(n), bytes) : \A j \in Places(Closer(n), bytes) : i <= j
\* the offset in the source of the byte after the first matching closer
CloseEnd == LongBodyAt + FirstCloser(LongBody, LongLevel) + LongLevel + 1

\* the first token of the source is known to the caller: no token was
\* consumed after it
FirstKnown ==
    /\ handed.op # "new"
    /\ handed.err = ""
    /\ \/ handed.taken = 0
       \/ handed.taken = 1 /\ handed.op = "consume" /\ handed.tok # NoToken
FirstToken ==
    IF handed.taken = 1 THEN handed.tok
    ELSE IF peeked # <<>> THEN Head(peeked)
    ELSE NoToken

\* C25: a long string or long comment of level n ends at the first ']'
\* followed by exactly n '=' signs and ']'. What stands before it, closers of
\* other levels included, is the string's content; a long comment is skipped
\* up to there. Without such a closer lexing fails with UnfinishedToken.
C25_LongBracketClosesAtItsLevel ==
    source \in LongSources /\ handed.op # "new"
    => IF FirstCloser(LongBody, LongLevel) = 0
       THEN handed.err = "UnfinishedToken"
       ELSE /\ handed.err = ""
            /\ Consumed(inner) >= CloseEnd
            /\ FirstKnown
               => IF LongStart = 0
                  THEN FirstToken = Token("String",
                           SubSeq(LongBody, 1, FirstCloser(LongBody, LongLevel) - 1), 0)
                  ELSE IF CloseEnd = Len(source) THEN FirstToken = NoToken
                  ELSE FirstToken.at = CloseEnd

\* a level 1 string whose closer begins at the second ']' of a level 0 closer
C25_Witness ==
    /\ source = <<LBRACKET, EQUALS, LBRACKET, RBRACKET, RBRACKET, EQUALS, RBRACKET, 97>>
    /\ handed.op = "consume"
    /\ handed.taken = 1
    /\ handed.tok = Token("String", <<RBRACKET>>, 0)

(* ===================== escapes of a short string ====================== *)
\* the escape of a source of DecimalSources or Utf8Sources: the bytes between
\* the opening and the closing part
EscapeDigits(open, close) == SubSeq(source, open + 1, Len(source) - close)

\* the value of decimal digits
RECURSIVE DecimalOf(_)
DecimalOf(ds) ==
    IF ds = <<>> THEN 0 ELSE 10 * DecimalOf(SubSeq(ds, 1, Len(ds) - 1)) + (ds[Len(ds)] - 48)

\* the value of one hexadecimal digit
HexDigitOf(ch) == IF ch <= 57 THEN ch - 48 ELSE IF ch <= 70 THEN ch - 55 ELSE ch - 87
\* hexadecimal digits without their leading zeros
RECURSIVE Significant(_)
Significant(hs) ==
    IF hs # <<>> /\ Head(hs) = 48 THEN Significant(Tail(hs)) ELSE hs
\* the hexadecimal value is at most 0x7FFFFFFF: at most eight significant
\* digits, the first of eight at most 7
HexFits(hs) ==
    \/ Len(Significant(hs)) < 8
    \/ Len(Significant(hs)) = 8 /\ HexDigitOf(Head(Significant(hs))) <= 7
\* the value of hexadecimal digits that fit
RECURSIVE HexOf(_)
HexOf(hs) ==
    IF hs = <<>> THEN 0 ELSE 16 * HexOf(SubSeq(hs, 1, Len(hs) - 1)) + HexDigitOf(hs[Len(hs)])

\* the string token a source of one escape gives
StringOf(bytes) == Token("String", bytes, 0)

\* C26: in a short string a decimal escape takes at most three digits, gives
\* the byte of their value if that is at most 255 and fails with
\* DecimalEscapeTooLarge otherwise (a fourth digit is an ordinary byte of the
\* string); a \u{...} escape of any number of hexadecimal digits gives the
\* UTF-8 bytes of its value if that value is at most 0x7FFFFFFF and fails with
\* Utf8ValueTooLarge otherwise, the value never wrapping around.
C26_EscapeValuesAreBounded ==
    /\ source \in DecimalSources /\ handed.op # "new"
       => LET ds == EscapeDigits(2, 1)
              taken == SubSeq(ds, 1, IF Len(ds) < 3 THEN Len(ds) ELSE 3)
              rest == SubSeq(ds, Len(taken) + 1, Len(ds))
          IN IF DecimalOf(taken) <= 255
             THEN /\ handed.err = ""
                  /\ FirstKnown /\ FirstToken # NoToken
                     => FirstToken = StringOf(<<DecimalOf(taken)>> \o rest)
             ELSE handed.err = "DecimalEscapeTooLarge"
    /\ source \in Utf8Sources /\ handed.op # "new"
       => LET hs == EscapeDigits(4, 2)
          IN IF HexFits(hs)
             THEN /\ handed.err = ""
                  /\ FirstKnown /\ FirstToken # NoToken
                     => FirstToken = StringOf(encode_utf8(HexOf(hs)))
             ELSE handed.err = "Utf8ValueTooLarge"

\* \u{007FFFFFFF} is taken, with its ten digits, as the largest code point
C26_Witness ==
    /\ source \in Utf8Sources
    /\ EscapeDigits(4, 2) = <<48, 48, 55, 102, 102, 102, 102, 102, 102, 102>>
    /\ handed.op = "consume"
    /\ handed.tok = StringOf(encode_utf8(MAX_UTF8))

(* ===================== tokens and their line numbers ================== *)
\* C27: when consume hands out a token, lineno() is 1 plus the number of
\* newline sequences of the source that stand before the token's first byte,
\* whether the token was lexed by this call or looked ahead with peek or
\* peek2 before.
C27_LinenoIsTheLineOfTheConsumedToken ==
    handed.op = "consume" /\ handed.err = "" /\ handed.tok # NoToken
    => handed.lineno = 1 + NewlineSeqs(SubSeq(source, 1, handed.tok.at))

(* ========================= two tokens of lookahead ==================== *)
\* the tokens the inner lexer gives from L on, up to the end or the first error
RECURSIVE TokensFrom(_)
TokensFrom(L) ==
    LET r == consume_token(L)
    IN IF r.err # "" \/ r.tok = NoToken THEN <<>>
       ELSE <<r.tok>> \o TokensFrom(r.L)
\* the tokens of the source that were not yet handed out by consume
Upcoming ==
    LET all == TokensFrom([pos |-> 0, peeked |-> <<>>, lineno |-> 1])
    IN SubSeq(all, handed.taken + 1, Len(all))

\* C28: when at least two tokens remain, peek2 returns the second of them and
\* consumes none, whether peek was called before or not.
C28_Peek2ReturnsTheSecondToken ==
    handed.op = "peek2" /\ Len(Upcoming) >= 2
    => /\ handed.err = ""
       /\ handed.tok = Upcoming[2]

(* ========================= what execute leaves ======================== *)
\* C29: when execute has returned, with Ok, with a runtime error or because
\* the value could not be called, the thread stack, the main thread's value
\* stack, its frame stack and its open upvalues are all empty, as the
\* assertions at the start of the next execute require.
C29_ExecuteLeavesTheMainThreadEmpty ==
    outcome.tag \in {"Ok", "Err"}
    => /\ thread_stack = <<>>
       /\ stack[main_thread] = <<>>
       /\ frames[main_thread] = <<>>
       /\ open_upvalues[main_thread] = NoUpvalues

(* ============================ the saved pc ============================ *)
\* the steps of the scheduler; every other step is one instruction
SchedulerSteps ==
    {"New", "Execute", "Exit", "StepGc", "EnterFrame", "ThreadFinish", "Continuation",
     "create", "error", "metamethod", "pcall", "resume"}
\* the instructions that take their own frame off the frame stack
LeavingOps == {"Return", "Return0", "Return1", "TailCall"}
\* the instructions that jump: the loop goes on at their target
JumpOps == {"ForPrep", "ForLoop", "TForLoop"}
\* the arithmetic instructions, which on success skip the MmBin that follows,
\* and NewTable, which skips its ExtraArg
SkippingOps == {"Add", "AddI", "AddK", "NewTable"}

\* the last step was an instruction after which the interpreter loop returned
\* to the scheduler with its frame still on the frame stack
ReturnedToScheduler ==
    /\ last.op \notin SchedulerSteps \cup LeavingOps
    /\ last.arm # "panic"
    /\ \/ last.err # ""
       \/ ~state.active /\ last.op \notin JumpOps
\* that frame as the scheduler finds it: at the time of the error if the
\* instruction raised one, after the step otherwise
FrameLeft ==
    IF last.err # "" THEN Last(before.frames[T])
    ELSE frames[T][Len(before.frames[T])]
\* where the frame goes on after the instruction at last.pc
Following ==
    IF last.err = "" /\ last.op \in SkippingOps THEN {last.pc + 1, last.pc + 2}
    ELSE {last.pc + 1}

\* C30: whenever the interpreter loop returns to the scheduler with its frame
\* still on the frame stack, with Ok or with an error, the frame's saved pc is
\* the index of the instruction after the one it executed last (after the
\* instruction skipped by arithmetic that succeeded and by NewTable; jumps
\* apart).
C30_SavedPcFollowsTheLastInstruction ==
    ReturnedToScheduler => FrameLeft.pc \in Following

(* ===================== leaving the loop for the collector ============= *)
\* the instructions that read the stack top when B = 0
TopReaders == {"Call", "TailCall", "Return", "SetList"}

\* C31: leaving the loop for a GC step between two instructions and entering
\* the frame again changes nothing the program can see: an instruction that
\* reads the stack top (Call, TailCall, Return, SetList with B = 0) reads the
\* top it would have read had the loop never been left for the collector, so
\* it passes, returns or stores the same values.
C31_GcInterruptionKeepsTheStackTop ==
    Done(TopReaders) /\ last.b = 0
    => before.state.saved_stack_top = before.state.top0

(* ============================== SetList =============================== *)
\* the operand of the ExtraArg after the instruction a step ran
FollowingAx ==
    (CHOOSE x \in Code(Closure1.name, before.state.pc + 1, 0) : TRUE).a
\* the offset SetList adds to its indices
ListOffset == last.c + (IF last.k THEN 256 * FollowingAx ELSE 0)
\* the number of values SetList is to assign
ListCount ==
    IF last.b > 0 THEN last.b
    ELSE before.state.saved_stack_top - (Frame0.base + last.a) - 1

\* C32: SetList on a table assigns the values of registers A+1, A+2, ... to
\* the indices offset+1, offset+2, ... in order: B values when B > 0, and with
\* B = 0 the top - (base+A) - 1 values up to the stack top; offset is C plus
\* 256 times the operand of the following ExtraArg when k is set. No other
\* index of the table, and no other table, is written.
C32_SetListAssignsTheRun ==
    last.op = "SetList" /\ last.err = "" =>
        LET nm == RegisterAt(last.a).name
            run == {ListOffset + i : i \in 1..ListCount}
        IN /\ last.arm = "none"
           /\ DOMAIN tables[nm] = DOMAIN before.tables[nm] \cup run
           /\ \A i \in 1..ListCount :
                tables[nm][ListOffset + i] = RegisterAt(last.a + i)
           /\ \A j \in DOMAIN before.tables[nm] \ run :
                tables[nm][j] = before.tables[nm][j]
           /\ \A other \in TableNames \ {nm} : tables[other] = before.tables[other]

(* ==================== VarArg with all the extras ====================== *)
\* VarArg A with C = 0 has just run without failing
AllExtrasTaken == Done({"VarArg"}) /\ last.c = 0
\* the top VarArg A is to leave for the consumer that follows it
TopAfterExtras == Last(frames[T]).base + last.a + Last(frames[T]).num_extra_args

\* C33: after VarArg A with C = 0 in a frame with k extra arguments, the
\* stack top the frame has saved when its next instruction runs is base+A+k,
\* whether the loop went on to that instruction or left the frame and entered
\* it again, for k = 0 and for base+A+k below base+max_stack_size too: a
\* consumer reading up to the top gets the k extras and no padding nil.
C33_VarArgSetsTheTopForItsConsumer ==
    [][AllExtrasTaken =>
          /\ state.active => state.saved_stack_top = TopAfterExtras
          /\ ~state.active /\ state'.active =>
                state'.saved_stack_top = TopAfterExtras]_vars

(* ================ the caller's registers after a return =============== *)
\* the number of values a returning instruction hands back
ResultsLeft ==
    CASE last.op = "Return0" -> 0
      [] last.op = "Return1" -> 1
      [] OTHER -> NumResults

\* C34: a return cuts the stack right above the returned values, and a frame
\* that is entered (the caller's, when it resumes) finds every slot from
\* there up to base+max_stack_size filled with nil: a register above the
\* returned values reads nil, never a value the callee's frame left behind.
C34_RegistersAboveTheResultsAreNil ==
    /\ Done({"Return", "Return0", "Return1"}) =>
          Len(stack[T]) = Frame0.bottom + ResultsLeft
    /\ Done({"EnterFrame"}) =>
          /\ Len(stack[T]) >= Frame0.base + ProtoMaxStackSize(Closure1.name)
          /\ \A i \in Len(before.stack[T])..(Len(stack[T]) - 1) :
                Get(stack[T], i) = Nil

\* the chunk MainSetList resumes after its callee returned one value into R2:
\* R3, where the callee kept its own first register, reads nil
C34_Witness ==
    /\ Done({"EnterFrame"})
    /\ Closure1.name = "MainSetList"
    /\ Frame0.pc = 5
    /\ Len(before.stack[T]) = Frame0.base + 3
    /\ Get(stack[T], Frame0.base + 2) = IntV(2)
    /\ Get(stack[T], Frame0.base + 3) = Nil

(* ================= for loops over the whole integer range ============= *)
\* integer init, limit and non-zero step, whatever their difference
ForWholeDomain ==
    /\ ForInit.ty = "Integer" /\ ForLimit.ty = "Integer" /\ ForStep.ty = "Integer"
    /\ ForStep.v # 0

\* C35: for all integers init, limit and step # 0 (limit - init out of the
\* signed range and step = the minimum integer included) ForPrep does not
\* fail and, when the loop runs at all, leaves at A+1 the count
\* floor(|limit-init| / |step|) of further iterations as an unsigned number
\* (its bits, read as an integer); ForLoop runs the body again exactly while
\* that unsigned count is not zero.
C35_ForPrepCountsWithoutOverflow ==
    /\ last.op = "ForPrep" /\ ForWholeDomain =>
         /\ last.arm = "none"
         /\ ForRuns =>
              Get(stack[T], Frame0.base + last.a + 1)
                = IntV(Wrap(Abs(ForLimit.v - ForInit.v) \div Abs(ForStep.v)))
    /\ Done({"ForLoop"}) =>
         (PcAfter = before.state.pc + 1 - last.b) = (RegisterAt(last.a + 1).v # 0)

(* ====================== chains of __call metamethods ================== *)
\* the function a chain of __call metamethods starting at a value ends at,
\* Nil when within `left` metamethods it reaches none
RECURSIVE CallTarget(_, _)
CallTarget(value, left) ==
    IF value.ty \in {"LuaClosure", "NativeFunction"} THEN value
    ELSE IF left = 0 \/ metamethod_of_object_call(value) = Nil THEN Nil
    ELSE CallTarget(metamethod_of_object_call(value), left - 1)
\* the chain never reaches a function (a chain longer than the tables there
\* are has come back to a table it has been at)
CallsNoFunction(value) == CallTarget(value, Cardinality(TableNames)) = Nil

\* C36: calling a value whose chain of __call metamethods never reaches a
\* function, a table whose __call metamethod is the table itself included,
\* ends in an error: push_frame gives up after a bounded number of retries,
\* the VM does not panic. (The callee is in the stack: B > 0, or the stack top
\* lies above register A.)
C36_CallChainEndsInAnError ==
    /\ last.op = "Call"
    /\ last.b > 0 \/ before.state.saved_stack_top > Frame0.base + last.a
    /\ CallsNoFunction(RegisterAt(last.a))
    =>
        /\ last.err \in {"TypeError", "Other"}
        /\ last.arm # "panic"

(* ================================ Unm ================================= *)
\* C37: Unm on an integer wraps like the other integer arithmetic and does
\* not fail: register A gets -x, and for x the minimum integer the minimum
\* integer again.
C37_UnmWrapsAtTheMinimum ==
    last.op = "Unm" /\ RegisterAt(last.b).ty = "Integer" =>
        /\ last.arm = "none"
        /\ last.err = ""
        /\ Get(stack[T], Frame0.base + last.a)
             = IntV(IF RegisterAt(last.b).v = MinInteger THEN MinInteger
                    ELSE -RegisterAt(last.b).v)

(* ===================== the tokens consume hands out =================== *)
\* the tokens of the source, up to its end or its first error
AllTokens == TokensFrom([pos |-> 0, peeked |-> <<>>, lineno |-> 1])

\* C38: however peek, peek2, consume and consume_if are interleaved, the
\* tokens consume (and a consume_if that accepts) hands out are the tokens of
\* the source in order: the n-th token handed out is the n-th token of the
\* source, the lookahead holds the tokens that come next, at most two of
\* them, and consume reports the end only when every token was handed out.
C38_ConsumeHandsOutTheTokensInOrder ==
    /\ Len(peeked) <= 2
    /\ handed.taken + Len(peeked) <= Len(AllTokens)
    /\ \A i \in 1..Len(peeked) : peeked[i] = AllTokens[handed.taken + i]
    /\ handed.op \in {"consume", "consume_if"} /\ handed.tok # NoToken =>
          handed.tok = AllTokens[handed.taken]
    /\ handed.op = "consume" /\ handed.err = "" /\ handed.tok = NoToken =>
          handed.taken = Len(AllTokens)

\* the third token is consumed from a lookahead of two
C38_Witness ==
    /\ handed.op = "consume"
    /\ handed.taken = 3
    /\ Len(AllTokens) >= 4
    /\ Len(peeked) = 1

(* ============================ math.random ============================= *)
\* math.random was called with integers only
RandomOfIntegers ==
    /\ math.fn = "random"
    /\ \A n \in 1..Len(math.args) : math.args[n].ty = "Integer"
\* the call returned an integer between lower and upper
ReturnedWithin(lower, upper) ==
    /\ math.result.tag = "Return"
    /\ math.result.value.ty = "Integer"
    /\ lower <= math.result.value.v
    /\ math.result.value.v <= upper

\* C39: math.random(m, n) with integers m <= n returns an integer r with
\* m <= r <= n, for every m and n of the integers' range (n - m beyond the
\* largest integer included); math.random(n) with n >= 1 returns r with
\* 1 <= r <= n; and with the lower bound above the upper one (m > n, or n < 0
\* for the bounds 1 and n) the call raises the argument error "interval is
\* empty" and returns nothing. (math.random(0), any integer, is no interval.)
C39_RandomStaysInTheInterval ==
    /\ RandomOfIntegers /\ Len(math.args) = 2 =>
         IF math.args[1].v <= math.args[2].v
         THEN ReturnedWithin(math.args[1].v, math.args[2].v)
         ELSE math.result = ArgumentError(1, "interval is empty")
    /\ RandomOfIntegers /\ Len(math.args) = 1 /\ math.args[1].v # 0 =>
         IF math.args[1].v >= 1
         THEN ReturnedWithin(1, math.args[1].v)
         ELSE math.result = ArgumentError(1, "interval is empty")

\* math.random(minimum integer, maximum integer - 1), an interval wider than
\* the largest integer and not all ones, has returned its upper bound
C39_Witness ==
    /\ math.fn = "random"
    /\ math.args = <<IntV(MinInteger), IntV(MaxInteger - 1)>>
    /\ math.result = Returned(IntV(MaxInteger - 1))

(* ============================= math.fmod ============================== *)
\* math.fmod was called with two integers
FmodOfIntegers ==
    /\ math.fn = "fmod"
    /\ Len(math.args) = 2
    /\ math.args[1].ty = "Integer" /\ math.args[2].ty = "Integer"
\* the remainder of a by b with the quotient truncated toward zero: it has
\* the sign of a and is smaller than b in magnitude
IsTruncatedRemainder(r, a, b) ==
    /\ \E q \in (MinInteger - 1)..(MaxInteger + 1) : a = q * b + r
    /\ Abs(r) < Abs(b)
    /\ r = 0 \/ (r < 0) = (a < 0)

\* C40: math.fmod(a, b) on two integers with b # 0 returns the remainder of
\* the truncated division of a by b, for all integers of the range: for the
\* minimum integer and -1 it returns 0. It raises the argument error "zero"
\* for argument 2 exactly when both arguments are integers and b = 0.
C40_FmodIsTheTruncatedRemainder ==
    /\ FmodOfIntegers /\ math.args[2].v # 0 =>
         /\ math.result.tag = "Return"
         /\ math.result.value.ty = "Integer"
         /\ IsTruncatedRemainder(math.result.value.v, math.args[1].v, math.args[2].v)
    /\ math.fn = "fmod" =>
         (math.result = ArgumentError(2, "zero")) = (FmodOfIntegers /\ math.args[2].v = 0)

====
